---- MODULE Spec2Model ----
(***************************************************************************)
(* Portfolio tracker: trade-lot accounting engine (main.js, server.js).    *)
(*                                                                         *)
(* Modelling conventions                                                   *)
(*  - A JavaScript Date is an integer number of ticks since 1970-01-01     *)
(*    00:00 UTC, TicksPerDay ticks to the calendar day.  The process time  *)
(*    zone is taken to be UTC, so local and UTC calendar days coincide.    *)
(*  - A JavaScript number is an exact rational <<numerator, denominator>>  *)
(*    in lowest terms with a positive denominator; quantities are whole    *)
(*    numbers.  Rounding of IEEE doubles is outside the model.             *)
(*  - A CSV row carries the values its text fields parse to.               *)
(***************************************************************************)
EXTENDS Integers, Sequences, FiniteSets, TLC

\* ------------------------------------------------------------------ bounds
MaxTrades == 3
MaxQty == 2
TicksPerDay == 2

\* -------------------------------------------------------------- arithmetic
Abs(x) == IF x < 0 THEN -x ELSE x

RECURSIVE GCD(_, _)
GCD(a, b) == IF b = 0 THEN a ELSE GCD(b, a % b)

\* a fraction n/d in lowest terms with a positive denominator; a division by zero
\* gives <<1, 0>> (Infinity), <<-1, 0>> (-Infinity) or <<0, 0>> (NaN), and these
\* propagate through the arithmetic as they do in the program
Norm(n, d) ==
  LET g == IF n = 0 /\ d = 0 THEN 1 ELSE GCD(Abs(n), Abs(d))
      s == IF d < 0 THEN -1 ELSE 1
  IN  <<(s * n) \div g, (s * d) \div g>>

R(n) == <<n, 1>>
Zero == <<0, 1>>
RAdd(a, b) == Norm(a[1] * b[2] + b[1] * a[2], a[2] * b[2])
RNeg(a) == <<-a[1], a[2]>>
RSub(a, b) == RAdd(a, RNeg(b))
RMul(a, b) == Norm(a[1] * b[1], a[2] * b[2])
RDiv(a, b) == Norm(a[1] * b[2], a[2] * b[1])
RLess(a, b) == a[1] * b[2] < b[1] * a[2]
RLeq(a, b) == a[1] * b[2] <= b[1] * a[2]
RAbs(a) == <<Abs(a[1]), a[2]>>

\* ---------------------------------------------------------------- calendar
\* days from 1970-01-01 to the civil date y-m-d (proleptic Gregorian)
DaysFromCivil(y, m, d) ==
  LET yy  == IF m <= 2 THEN y - 1 ELSE y
      era == yy \div 400
      yoe == yy - era * 400
      mp  == (m + 9) % 12
      doy == (153 * mp + 2) \div 5 + d - 1
      doe == yoe * 365 + yoe \div 4 - yoe \div 100 + doy
  IN  era * 146097 + doe - 719468

\* new Date(y, m-1, d) and new Date("y-mm-dd"): midnight opening the day
DateOf(y, m, d) == DaysFromCivil(y, m, d) * TicksPerDay
\* the last representable instant of the day (T23:59:59.999)
EndOfDay(y, m, d) == DaysFromCivil(y, m, d) * TicksPerDay + (TicksPerDay - 1)
\* date.toISOString().split('T')[0]: the calendar day of an instant
DateKey(t) == t \div TicksPerDay

\* getFullYear, getMonth() + 1 and getDate of a day
CivilFromDays(z) ==
  LET era == (z + 719468) \div 146097
      doe == (z + 719468) - era * 146097
      yoe == (doe - doe \div 1460 + doe \div 36524 - doe \div 146096) \div 365
      doy == doe - (365 * yoe + yoe \div 4 - yoe \div 100)
      mp  == (5 * doy + 2) \div 153
      m   == IF mp < 10 THEN mp + 3 ELSE mp - 9
  IN  [year |-> yoe + era * 400 + (IF m <= 2 THEN 1 ELSE 0), month |-> m,
       day |-> doy - (153 * mp + 2) \div 5 + 1]

\* getDay: 0 is Sunday; 1970-01-01 was a Thursday
getDay(t) == (DateKey(t) + 4) % 7

\* new Date(year, monthIndex, 1) with monthIndex out of 0..11 carried into the year
FirstOfMonth(year, monthIndex) ==
  DateOf((year * 12 + monthIndex) \div 12, ((year * 12 + monthIndex) % 12) + 1, 1)

\* ---------------------------------------------------------- program state
VARIABLES
  currencyRates,   \* main.js:11  Map dateKey -> USD to AUD rate, in insertion order
  portfolioData,   \* main.js:12  the loaded executed rows
  tradesLoaded,    \* main.js:14
  file,            \* the rows csv-parser yields for the trades file on disk
  rateFeed,        \* the [key, rate] rows the rate source yields
  boot,            \* how far app.whenReady's chain has come
  now,             \* the wall clock, new Date()
  response,        \* the value the last report request returned, with its request
  lastCG           \* the previous get-capital-gains response and what it was computed at

vars == <<currencyRates, portfolioData, tradesLoaded, file, rateFeed, boot, now, response, lastCG>>

Null == [null |-> TRUE]
NaN == <<0, 0>>            \* undefined / not a number: a value no arithmetic produces
FallbackRate == <<3, 2>>   \* the literal 1.5

\* ---------------------------------------------------------- symbol decoder
UpperCase == {"A", "B", "C", "D", "E", "F", "G", "H", "I", "J", "K", "L", "M",
              "N", "O", "P", "Q", "R", "S", "T", "U", "V", "W", "X", "Y", "Z"}
Digits == {"0", "1", "2", "3", "4", "5", "6", "7", "8", "9"}

DigitVal(c) ==
  CASE c = "0" -> 0 [] c = "1" -> 1 [] c = "2" -> 2 [] c = "3" -> 3 [] c = "4" -> 4
    [] c = "5" -> 5 [] c = "6" -> 6 [] c = "7" -> 7 [] c = "8" -> 8 [] c = "9" -> 9

\* the characters of the ticker strings the model trades in
Chars(symbol) ==
  CASE symbol = "AAPL" -> <<"A", "A", "P", "L">>
    [] symbol = "BHP" -> <<"B", "H", "P">>
    [] symbol = "SPY240119C480000" ->
         <<"S", "P", "Y", "2", "4", "0", "1", "1", "9", "C", "4", "8", "0", "0", "0", "0">>
    [] symbol = "SOFI251121C26000" ->
         <<"S", "O", "F", "I", "2", "5", "1", "1", "2", "1", "C", "2", "6", "0", "0", "0">>
    [] symbol = "A000101P5" -> <<"A", "0", "0", "0", "1", "0", "1", "P", "5">>
    [] symbol = "SPY24011C480" ->
         <<"S", "P", "Y", "2", "4", "0", "1", "1", "C", "4", "8", "0">>
    [] symbol = "SPY2401190C480" ->
         <<"S", "P", "Y", "2", "4", "0", "1", "1", "9", "0", "C", "4", "8", "0">>
    [] symbol = "spy240119C480" ->
         <<"s", "p", "y", "2", "4", "0", "1", "1", "9", "C", "4", "8", "0">>
    [] symbol = "SPY240119X480" ->
         <<"S", "P", "Y", "2", "4", "0", "1", "1", "9", "X", "4", "8", "0">>
    [] symbol = "SPY240119C" -> <<"S", "P", "Y", "2", "4", "0", "1", "1", "9", "C">>
    [] symbol = "240119C480" -> <<"2", "4", "0", "1", "1", "9", "C", "4", "8", "0">>
    [] symbol = "SPY240119C48A" ->
         <<"S", "P", "Y", "2", "4", "0", "1", "1", "9", "C", "4", "8", "A">>
    [] symbol = "SPY 240119C480" ->
         <<"S", "P", "Y", " ", "2", "4", "0", "1", "1", "9", "C", "4", "8", "0">>
    [] OTHER -> <<>>

\* length of the longest prefix of s made of characters of set
RECURSIVE PrefixLen(_, _)
PrefixLen(s, set) ==
  IF s = <<>> \/ Head(s) \notin set THEN 0 ELSE 1 + PrefixLen(Tail(s), set)

\* parseInt / parseFloat of a string of digits
RECURSIVE DigitsValue(_)
DigitsValue(s) ==
  IF s = <<>> THEN 0 ELSE 10 * DigitsValue(SubSeq(s, 1, Len(s) - 1)) + DigitVal(s[Len(s)])

\* /^([A-Z]+)(\d{6})([CP])(\d+)$/ : letters and digits are disjoint, so the greedy
\* match is the only one
parseOptionsSymbol(symbol, clock) ==
  LET s == Chars(symbol)
      u == PrefixLen(s, UpperCase)
      rest == SubSeq(s, u + 1, Len(s))
      d == PrefixLen(rest, Digits)
      \* [A-Z]+ may give back a trailing C or P only if 6 digits precede it: never,
      \* the letters come first
      strike == SubSeq(rest, 8, Len(rest))
      matches == /\ u >= 1
                 /\ d = 6
                 /\ Len(rest) >= 8
                 /\ rest[7] \in {"C", "P"}
                 /\ PrefixLen(strike, Digits) = Len(strike)
      expiryDate == DateOf(2000 + DigitsValue(SubSeq(rest, 1, 2)),
                           DigitsValue(SubSeq(rest, 3, 4)),
                           DigitsValue(SubSeq(rest, 5, 6)))
  IN  IF matches
      THEN [underlying |-> SubSeq(s, 1, u),
            expiryDate |-> expiryDate,
            optionType |-> IF rest[7] = "C" THEN "Call" ELSE "Put",
            strikePrice |-> Norm(DigitsValue(strike), 1000),
            isExpired |-> expiryDate < clock]
      ELSE Null

isOption(symbol) == parseOptionsSymbol(symbol, 0) # Null

\* a variant that takes every symbol holding a digit for an option, against which
\* the tie of the multiplier to the decoder is tested
getMultiplierOfDigits(symbol) ==
  IF \E i \in 1..Len(Chars(symbol)) : Chars(symbol)[i] \in Digits THEN 100 ELSE 1

getMultiplier(symbol) == IF isOption(symbol) THEN 100 ELSE 1

\* the row's 'Filled@Avg Price' parsed: the quantity and the price times the multiplier
parseFilledAvg(row) ==
  [qty |-> row.FilledQty, price |-> RMul(row.AvgPrice, R(getMultiplier(row.Symbol)))]

\* the row's 'Fill Time' parsed
parseCSVDate(row) == row.FillTime

isExecutedStatus(status) == status = "Filled" \/ status = "Partially Cancelled"

\* ------------------------------------------------------ currency converter
RECURSIVE MapIndex(_, _)
MapIndex(map, key) ==
  IF map = <<>> THEN 0
  ELSE IF map[Len(map)].key = key /\ MapIndex(SubSeq(map, 1, Len(map) - 1), key) = 0
       THEN Len(map)
       ELSE MapIndex(SubSeq(map, 1, Len(map) - 1), key)

MapHas(map, key) == \E i \in 1..Len(map) : map[i].key = key
MapGet(map, key) == map[MapIndex(map, key)].rate

AddDays(t, n) == t + n * TicksPerDay

RECURSIVE ProbeNearest(_, _, _)
ProbeNearest(rates, date, i) ==
  IF i > 7 THEN FallbackRate
  ELSE IF MapHas(rates, DateKey(AddDays(date, -i))) THEN MapGet(rates, DateKey(AddDays(date, -i)))
  ELSE IF MapHas(rates, DateKey(AddDays(date, i))) THEN MapGet(rates, DateKey(AddDays(date, i)))
  ELSE ProbeNearest(rates, date, i + 1)

getUSDToAUDRate(rates, date) ==
  IF MapHas(rates, DateKey(date)) THEN MapGet(rates, DateKey(date))
  ELSE ProbeNearest(rates, date, 1)

\* server.js: the entry nearest in elapsed time, at most 7 x 24 hours away
RECURSIVE ServerNearest(_, _, _, _, _)
ServerNearest(rates, date, i, nearestRate, nearestDiff) ==
  IF i > Len(rates) THEN nearestRate
  ELSE LET diff == Abs(date - rates[i].key * TicksPerDay)
           better == diff <= 7 * TicksPerDay /\ (nearestDiff < 0 \/ diff < nearestDiff)
       IN  ServerNearest(rates, date, i + 1,
                         IF better THEN rates[i].rate ELSE nearestRate,
                         IF better THEN diff ELSE nearestDiff)

getUSDToAUDRate_server(rates, date) ==
  IF MapHas(rates, DateKey(date)) THEN MapGet(rates, DateKey(date))
  ELSE LET nearestRate == ServerNearest(rates, date, 1, NaN, -1)
       IN  IF nearestRate = NaN \/ nearestRate = Zero THEN FallbackRate ELSE nearestRate

\* a variant that converts at the rate of the moment of the report, against which
\* the use of the trade's date is tested
convertCurrencyAtNow(rates, amount, fromMarket, toCurrency, tradeDate) ==
  LET fromCurrency == IF fromMarket = "AU" THEN "AUD" ELSE "USD"
      targetCurrency == IF toCurrency = "AU" THEN "AUD"
                        ELSE IF toCurrency = "US" THEN "USD" ELSE toCurrency
      usdToAudRate == getUSDToAUDRate(rates, now)
  IN  IF fromCurrency = targetCurrency THEN amount
      ELSE IF fromCurrency = "USD" /\ targetCurrency = "AUD" THEN RMul(amount, usdToAudRate)
      ELSE IF fromCurrency = "AUD" /\ targetCurrency = "USD" THEN RDiv(amount, usdToAudRate)
      ELSE amount

\* a variant that multiplies by the rate in both directions, against which the
\* direction of the conversion is tested
convertCurrencyMultiplying(rates, amount, fromMarket, toCurrency, tradeDate) ==
  LET fromCurrency == IF fromMarket = "AU" THEN "AUD" ELSE "USD"
      targetCurrency == IF toCurrency = "AU" THEN "AUD"
                        ELSE IF toCurrency = "US" THEN "USD" ELSE toCurrency
      usdToAudRate == getUSDToAUDRate(rates, tradeDate)
  IN  IF fromCurrency = targetCurrency THEN amount
      ELSE IF fromCurrency = "USD" /\ targetCurrency = "AUD" THEN RMul(amount, usdToAudRate)
      ELSE IF fromCurrency = "AUD" /\ targetCurrency = "USD" THEN RMul(amount, usdToAudRate)
      ELSE amount

convertCurrency(rates, amount, fromMarket, toCurrency, tradeDate) ==
  LET fromCurrency == IF fromMarket = "AU" THEN "AUD" ELSE "USD"
      targetCurrency == IF toCurrency = "AU" THEN "AUD"
                        ELSE IF toCurrency = "US" THEN "USD" ELSE toCurrency
      usdToAudRate == getUSDToAUDRate(rates, tradeDate)
  IN  IF fromCurrency = targetCurrency THEN amount
      ELSE IF fromCurrency = "USD" /\ targetCurrency = "AUD" THEN RMul(amount, usdToAudRate)
      ELSE IF fromCurrency = "AUD" /\ targetCurrency = "USD" THEN RDiv(amount, usdToAudRate)
      ELSE amount


\* ------------------------------------------------------------ symbol groups
\* symbolGroups: an object keyed by symbol, modelled as the sequence of its
\* [symbol, trades] entries in insertion order (the order Object.keys yields)
GroupIndex(groups, symbol) ==
  IF \E i \in 1..Len(groups) : groups[i].symbol = symbol
  THEN CHOOSE i \in 1..Len(groups) : groups[i].symbol = symbol
  ELSE 0

GroupPush(groups, symbol, trade) ==
  LET i == GroupIndex(groups, symbol)
  IN  IF i = 0 THEN Append(groups, [symbol |-> symbol, trades |-> <<trade>>])
      ELSE [groups EXCEPT ![i].trades = Append(@, trade)]

\* Array.prototype.sort((a, b) => a.date - b.date): stable, ascending by date
RECURSIVE InsertByDate(_, _)
InsertByDate(sorted, t) ==
  IF sorted = <<>> THEN <<t>>
  ELSE IF sorted[Len(sorted)].date <= t.date THEN Append(sorted, t)
  ELSE Append(InsertByDate(SubSeq(sorted, 1, Len(sorted) - 1), t), sorted[Len(sorted)])

RECURSIVE SortByDate(_)
SortByDate(ts) ==
  IF ts = <<>> THEN <<>>
  ELSE InsertByDate(SortByDate(SubSeq(ts, 1, Len(ts) - 1)), ts[Len(ts)])

RECURSIVE SumQty(_, _)
SumQty(ts, side) ==
  IF ts = <<>> THEN 0
  ELSE (IF Head(ts).side = side THEN Head(ts).qty ELSE 0) + SumQty(Tail(ts), side)

\* trades.find(t => t.name) || trades[0]
SampleTrade(ts) ==
  IF \E i \in 1..Len(ts) : ts[i].name # ""
  THEN ts[CHOOSE i \in 1..Len(ts) : ts[i].name # "" /\ \A j \in 1..(i - 1) : ts[j].name = ""]
  ELSE ts[1]

\* the synthetic sell of an expired option: sold for nothing on the expiry date
SyntheticSell(symbol, qty, expiryDate, name, market) ==
  [side |-> "Sell", qty |-> qty, price |-> Zero, amount |-> Zero, date |-> expiryDate,
   commission |-> Zero, fees |-> Zero, symbol |-> symbol, name |-> name, market |-> market,
   originalCurrency |-> "undefined",
   amountAUD |-> Zero, commissionAUD |-> Zero, feesAUD |-> Zero, isSynthetic |-> TRUE]

\* calculateHistoricalCostBasis, as far as addExpiredOptionsLosses reads it: the
\* symbols with a positive net position and that position, in Object.keys order
RECURSIVE HistoricalGroups(_, _)
HistoricalGroups(rows, groups) ==
  IF rows = <<>> THEN groups
  ELSE HistoricalGroups(Tail(rows),
         GroupPush(groups, Head(rows).Symbol,
                   [side |-> Head(rows).Side, qty |-> parseFilledAvg(Head(rows)).qty,
                    date |-> parseCSVDate(Head(rows))]))

NetQty(trades) == SumQty(trades, "Buy") - SumQty(trades, "Sell")

RECURSIVE HistoricalPositions(_, _)
HistoricalPositions(groups, k) ==
  IF k = 0 THEN <<>>
  ELSE IF NetQty(groups[k].trades) > 0
       THEN Append(HistoricalPositions(groups, k - 1),
                   [symbol |-> groups[k].symbol, netPosition |-> NetQty(groups[k].trades)])
       ELSE HistoricalPositions(groups, k - 1)

HistoricalOf(groups) == HistoricalPositions(groups, Len(groups))

calculateHistoricalCostBasis(rows) ==
  HistoricalOf(
    HistoricalGroups(SelectSeq(rows, LAMBDA r : isExecutedStatus(r.Status)), <<>>))

\* first pass of addExpiredOptionsLosses over one group: sorts it in place and,
\* for an expired option still held, pushes the synthetic sell
ExpireSorted(g, optionsInfo, trades, remainingHoldings) ==
  \* remainingHoldings > 0.01
  IF 100 * remainingHoldings > 1
  THEN [g EXCEPT !.trades =
          Append(trades, SyntheticSell(g.symbol, remainingHoldings,
                                       optionsInfo.expiryDate,
                                       SampleTrade(trades).name,
                                       SampleTrade(trades).market))]
  ELSE [g EXCEPT !.trades = trades]

ExpireOption(g, optionsInfo, trades) ==
  ExpireSorted(g, optionsInfo, trades, NetQty(trades))

ExpireChecked(g, optionsInfo) ==
  IF optionsInfo = Null \/ ~optionsInfo.isExpired THEN g
  ELSE ExpireOption(g, optionsInfo, SortByDate(g.trades))

ExpireGroup(g, clock) == ExpireChecked(g, parseOptionsSymbol(g.symbol, clock))

\* second pass: positions of calculateHistoricalCostBasis that have no group
HistoricalSkipped(groups, p, optionsInfo) ==
  \/ GroupIndex(groups, p.symbol) # 0
  \/ optionsInfo = Null
  \/ ~optionsInfo.isExpired
  \/ ~(100 * p.netPosition > 1)

HistoricalGroup(p, optionsInfo) ==
  [symbol |-> p.symbol,
   trades |-> <<SyntheticSell(p.symbol, p.netPosition, optionsInfo.expiryDate,
                              p.symbol, "US")>>]

RECURSIVE ExpireHistorical(_, _, _, _)
ExpireHistorical(groups, positions, i, clock) ==
  IF i > Len(positions) THEN groups
  ELSE ExpireHistorical(
         IF HistoricalSkipped(groups, positions[i],
                              parseOptionsSymbol(positions[i].symbol, clock))
         THEN groups
         ELSE Append(groups,
                     HistoricalGroup(positions[i],
                                     parseOptionsSymbol(positions[i].symbol, clock))),
         positions, i + 1, clock)

RECURSIVE ExpireGroups(_, _, _)
ExpireGroups(symbolGroups, k, clock) ==
  IF k = 0 THEN <<>>
  ELSE Append(ExpireGroups(symbolGroups, k - 1, clock), ExpireGroup(symbolGroups[k], clock))

ExpireAll(first, positions, clock) ==
  ExpireHistorical(first, positions, 1, clock)

addExpiredOptionsLosses(symbolGroups, allTrades, clock) ==
  ExpireAll(ExpireGroups(symbolGroups, Len(symbolGroups), clock),
            calculateHistoricalCostBasis(allTrades), clock)


\* ---------------------------------------------------------- FIFO lot engine
Min(a, b) == IF a <= b THEN a ELSE b

FIFOTrade(row) ==
  LET fillData == parseFilledAvg(row)
  IN  [side |-> row.Side, qty |-> fillData.qty, price |-> fillData.price,
       amount |-> RMul(R(fillData.qty), fillData.price),
       date |-> parseCSVDate(row),
       commission |-> row.Commission, fees |-> row.Total,
       symbol |-> row.Symbol, name |-> row.Name, market |-> row.market,
       originalCurrency |-> IF row.market = "US" THEN "USD" ELSE "AUD",
       amountAUD |-> NaN, commissionAUD |-> NaN, feesAUD |-> NaN, isSynthetic |-> FALSE]

RECURSIVE FIFOGroups(_, _)
FIFOGroups(rows, groups) ==
  IF rows = <<>> THEN groups
  ELSE FIFOGroups(Tail(rows), GroupPush(groups, Head(rows).Symbol, FIFOTrade(Head(rows))))

\* the lots of a queue, each by the replay index of its opening trade and its quantity
RECURSIVE OpenLots(_, _)
OpenLots(queue, k) ==
  IF k = 0 THEN <<>>
  ELSE Append(OpenLots(queue, k - 1), [lot |-> queue[k].lot, qty |-> queue[k].qty])

\* a variant of the sell loop that takes from the newest lot first, against which
\* the order of consumption is tested
RECURSIVE FIFOSellLoopNewestFirst(_)
FIFOSellLoopNewestFirst(st) ==
  IF st.remaining > 0 /\ Len(st.queue) > 0
  THEN LET holding == st.queue[Len(st.queue)]
           qtyFromThisHolding == Min(st.remaining, holding.qty)
           costBasisForThisQty == RMul(holding.costPerShare, R(qtyFromThisHolding))
           reduced == [holding EXCEPT !.qty = @ - qtyFromThisHolding,
                                      !.costBasis = RSub(@, costBasisForThisQty)]
           front == SubSeq(st.queue, 1, Len(st.queue) - 1)
       IN  FIFOSellLoopNewestFirst(
             [queue |-> IF reduced.qty <= 0 THEN front ELSE Append(front, reduced),
              remaining |-> st.remaining - qtyFromThisHolding,
              cost |-> RAdd(st.cost, costBasisForThisQty),
              steps |-> Append(st.steps,
                          [lot |-> holding.lot, headQty |-> holding.qty,
                           remainingBefore |-> st.remaining,
                           qty |-> qtyFromThisHolding,
                           costPerShare |-> holding.costPerShare,
                           open |-> OpenLots(st.queue, Len(st.queue))])])
  ELSE st

\* the while loop of a sell.  st = [queue, remaining, cost, steps]; steps records,
\* for each iteration, the lot it took from (by the replay index of the trade that
\* opened it), the quantities involved and the lots open before it
RECURSIVE FIFOSellLoop(_)
FIFOSellLoop(st) ==
  IF st.remaining > 0 /\ Len(st.queue) > 0
  THEN LET holding == st.queue[1]
           qtyFromThisHolding == Min(st.remaining, holding.qty)
           costBasisForThisQty == RMul(holding.costPerShare, R(qtyFromThisHolding))
           reduced == [holding EXCEPT !.qty = @ - qtyFromThisHolding,
                                      !.costBasis = RSub(@, costBasisForThisQty)]
       IN  FIFOSellLoop(
             [queue |-> IF reduced.qty <= 0 THEN Tail(st.queue)
                        ELSE <<reduced>> \o Tail(st.queue),
              remaining |-> st.remaining - qtyFromThisHolding,
              cost |-> RAdd(st.cost, costBasisForThisQty),
              steps |-> Append(st.steps,
                          [lot |-> holding.lot, headQty |-> holding.qty,
                           remainingBefore |-> st.remaining,
                           qty |-> qtyFromThisHolding,
                           costPerShare |-> holding.costPerShare,
                           open |-> OpenLots(st.queue, Len(st.queue))])])
  ELSE st

EmptyTotals ==
  [queue |-> <<>>,
   pnl |-> [USD |-> Zero, AUD |-> Zero],
   buy |-> [USD |-> Zero, AUD |-> Zero],
   sell |-> [USD |-> Zero, AUD |-> Zero],
   totalBuyAmount |-> Zero, totalBuyQty |-> 0,
   sells |-> <<>>]

TradeCurrency(trade) ==
  IF trade.originalCurrency = "undefined" THEN "USD" ELSE trade.originalCurrency

FIFOBuy(acc, trade, k, tradeCurrency, totalCost) ==
  [acc EXCEPT
     !.queue = Append(@, [qty |-> trade.qty, costBasis |-> totalCost,
                          costPerShare |-> RDiv(totalCost, R(trade.qty)),
                          currency |-> tradeCurrency, date |-> trade.date,
                          lot |-> k]),
     !.buy[tradeCurrency] = RAdd(@, trade.amount),
     !.totalBuyAmount = RAdd(@, totalCost),
     !.totalBuyQty = @ + trade.qty]

\* the negative holding a sell leaves for the quantity no lot covered
ShortLot(trade, k, tradeCurrency, remainingQtyToSell, netPerSold) ==
  [qty |-> -remainingQtyToSell,
   costBasis |-> RNeg(netPerSold),
   costPerShare |-> RDiv(netPerSold, R(remainingQtyToSell)),
   currency |-> tradeCurrency, date |-> trade.date, lot |-> k]

\* shortSellProceeds - shortSellFees
ShortNet(trade, remainingQtyToSell) ==
  RSub(RMul(RDiv(trade.amount, R(trade.qty)), R(remainingQtyToSell)),
       RMul(RDiv(RAdd(trade.commission, trade.fees), R(trade.qty)), R(remainingQtyToSell)))

\* a variant of the sell that forgets the quantity no lot covered, against which
\* the conservation of the net position is tested
FIFOSellNoShort(acc, trade, k, tradeCurrency, loop, sellProceeds) ==
  [acc EXCEPT
     !.queue = loop.queue,
     !.pnl[tradeCurrency] = RAdd(@, RSub(sellProceeds, loop.cost)),
     !.sell[tradeCurrency] = RAdd(@, trade.amount),
     !.sells = Append(@, [trade |-> k, realizedPnL |-> RSub(sellProceeds, loop.cost),
                          sellProceeds |-> sellProceeds,
                          uncovered |-> loop.remaining,
                          steps |-> loop.steps])]

FIFOSell(acc, trade, k, tradeCurrency, loop, sellProceeds) ==
  [acc EXCEPT
     !.queue = IF loop.remaining > 0
               THEN <<ShortLot(trade, k, tradeCurrency, loop.remaining,
                               ShortNet(trade, loop.remaining))>> \o loop.queue
               ELSE loop.queue,
     !.pnl[tradeCurrency] = RAdd(@, RSub(sellProceeds, loop.cost)),
     !.sell[tradeCurrency] = RAdd(@, trade.amount),
     !.sells = Append(@, [trade |-> k, realizedPnL |-> RSub(sellProceeds, loop.cost),
                          sellProceeds |-> sellProceeds,
                          uncovered |-> loop.remaining,
                          steps |-> loop.steps])]

\* one trade of the chronological replay; k is its index in the sorted trades
FIFOStep(acc, trade, k) ==
  IF trade.side = "Buy"
  THEN FIFOBuy(acc, trade, k, TradeCurrency(trade),
               RAdd(RAdd(trade.amount, trade.commission), trade.fees))
  ELSE IF trade.side = "Sell"
  THEN FIFOSell(acc, trade, k, TradeCurrency(trade),
                FIFOSellLoop([queue |-> acc.queue, remaining |-> trade.qty,
                              cost |-> Zero, steps |-> <<>>]),
                RSub(RSub(trade.amount, trade.commission), trade.fees))
  ELSE acc

RECURSIVE FIFOReplay(_, _)
FIFOReplay(trades, k) ==
  IF k = 0 THEN EmptyTotals ELSE FIFOStep(FIFOReplay(trades, k - 1), trades[k], k)

RECURSIVE SumLots(_, _)
SumLots(queue, k) == IF k = 0 THEN 0 ELSE SumLots(queue, k - 1) + queue[k].qty

RECURSIVE SumLotCost(_, _)
SumLotCost(queue, k) ==
  IF k = 0 THEN Zero ELSE RAdd(SumLotCost(queue, k - 1), RAbs(queue[k].costBasis))

\* totals in USD and in AUD shown in displayCurrency at one rate
ConvertTotals(byCurrency, displayCurrency, rate) ==
  RAdd(RMul(byCurrency.USD, IF displayCurrency = "USD" THEN R(1) ELSE rate),
       RMul(byCurrency.AUD, IF displayCurrency = "AUD" THEN R(1) ELSE RDiv(R(1), rate)))

\* a variant that takes the rate of the first trade's date, against which the use
\* of the current date is tested
SummaryRateAtTrade(rates, clock) ==
  IF portfolioData = <<>> THEN FallbackRate
  ELSE getUSDToAUDRate(rates, parseCSVDate(portfolioData[1]))

\* the rate the summary converts its totals at
SummaryRate(rates, clock) == getUSDToAUDRate(rates, clock)

\* trades.map(t => ({side, fillQty, fillPrice, fillAmount, fillTime}))
RECURSIVE FillList(_, _)
FillList(trades, k) ==
  IF k = 0 THEN <<>>
  ELSE Append(FillList(trades, k - 1),
              [side |-> trades[k].side, fillQty |-> trades[k].qty,
               fillPrice |-> trades[k].price, fillAmount |-> trades[k].amount,
               fillTime |-> trades[k].date])

FIFOResultOf(symbol, trades, replay, currentNetPosition, displayCurrency, rate) ==
  [symbol |-> symbol,
   name |-> trades[1].name,
   netPosition |-> currentNetPosition,
   avgBuyPrice |-> IF currentNetPosition > 0
                   THEN RDiv(SumLotCost(replay.queue, Len(replay.queue)),
                             R(currentNetPosition))
                   ELSE Zero,
   totalPnL |-> ConvertTotals(replay.pnl, displayCurrency, rate),
   buyVolume |-> ConvertTotals(replay.buy, displayCurrency, rate),
   sellVolume |-> ConvertTotals(replay.sell, displayCurrency, rate),
   market |-> trades[1].market,
   trades |-> FillList(trades, Len(trades))]

\* the replay of a symbol's sorted trades
FIFOSorted(trades) == FIFOReplay(trades, Len(trades))

FIFOReplayed(symbol, trades, replay, displayCurrency, rate) ==
  FIFOResultOf(symbol, trades, replay, SumLots(replay.queue, Len(replay.queue)),
               displayCurrency, rate)

FIFOSortedResult(symbol, trades, displayCurrency, rate) ==
  FIFOReplayed(symbol, trades, FIFOSorted(trades), displayCurrency, rate)

FIFOResult(g, displayCurrency, rate) ==
  FIFOSortedResult(g.symbol, SortByDate(g.trades), displayCurrency, rate)

\* the symbol groups calculateFIFOPnL replays: the executed rows and the synthetic sells
FIFOSymbolGroups(rows, clock) ==
  addExpiredOptionsLosses(
    FIFOGroups(SelectSeq(rows, LAMBDA r : isExecutedStatus(r.Status)), <<>>), rows, clock)

RECURSIVE FIFOResults(_, _, _, _)
FIFOResults(symbolGroups, k, displayCurrency, rate) ==
  IF k = 0 THEN <<>>
  ELSE Append(FIFOResults(symbolGroups, k - 1, displayCurrency, rate),
              FIFOResult(symbolGroups[k], displayCurrency, rate))

FIFOAll(symbolGroups, displayCurrency, rate) ==
  FIFOResults(symbolGroups, Len(symbolGroups), displayCurrency, rate)

calculateFIFOPnL(rows, displayCurrency, rates, clock) ==
  FIFOAll(FIFOSymbolGroups(rows, clock), displayCurrency, SummaryRate(rates, clock))

\* ---------------------------------------------------- capital gains reporter
NoYear == 0    \* financialYear absent (null): parseInt is not taken

cutoffDateStart(financialYear) ==
  IF financialYear # NoYear THEN DateOf(financialYear, 7, 1) ELSE DateOf(2000, 1, 1)

cutoffDateEnd(financialYear, clock) ==
  IF financialYear # NoYear THEN EndOfDay(financialYear + 1, 6, 30) ELSE clock

CGTrade(row, rates) ==
  LET fillData == parseFilledAvg(row)
      amount == RMul(R(fillData.qty), fillData.price)
      date == parseCSVDate(row)
  IN  [side |-> row.Side, qty |-> fillData.qty, price |-> fillData.price,
       amount |-> amount, date |-> date,
       commission |-> row.Commission, fees |-> row.Total,
       symbol |-> row.Symbol, name |-> row.Name, market |-> row.market,
       originalCurrency |-> "undefined",
       amountAUD |-> convertCurrency(rates, amount, row.market, "AUD", date),
       commissionAUD |-> convertCurrency(rates, row.Commission, row.market, "AUD", date),
       feesAUD |-> convertCurrency(rates, row.Total, row.market, "AUD", date),
       isSynthetic |-> FALSE]

RECURSIVE CGGroups(_, _, _)
CGGroups(rows, rates, groups) ==
  IF rows = <<>> THEN groups
  ELSE CGGroups(Tail(rows), rates,
                GroupPush(groups, Head(rows).Symbol, CGTrade(Head(rows), rates)))

\* the symbol groups calculateCapitalGains replays
CGSymbolGroups(rows, rates, clock) ==
  addExpiredOptionsLosses(
    CGGroups(SelectSeq(rows, LAMBDA r : isExecutedStatus(r.Status)), rates, <<>>),
    rows, clock)

\* a variant of the in-window sell loop that charges the sell's whole commission
\* and fees to every slice, against which the proportional allocation is tested
RECURSIVE CGSellLoopWholeFees(_, _, _)
CGSellLoopWholeFees(st, trade, optionsInfo) ==
  IF st.remainingQty > 0 /\ Len(st.holdings) > 0
  THEN LET holding == st.holdings[1]
           qtyToSell == Min(st.remainingQty, holding.qty)
           sellPricePerUnit == IF trade.qty > 0 THEN RDiv(trade.amountAUD, R(trade.qty))
                               ELSE Zero
           totalCommissionAndFees == RAdd(trade.commissionAUD, trade.feesAUD)
           costPerShare == RDiv(holding.cost, R(holding.qty))
           costBasis == RMul(costPerShare, R(qtyToSell))
           proceedsForLot == RMul(R(qtyToSell), sellPricePerUnit)
           netProceedsForLot == RSub(proceedsForLot, totalCommissionAndFees)
           capitalGainForLot == RSub(netProceedsForLot, costBasis)
           holdingPeriod == (trade.date - holding.date) \div TicksPerDay
           reduced == [holding EXCEPT !.qty = @ - qtyToSell, !.cost = RSub(@, costBasis)]
       IN  CGSellLoopWholeFees(
             [holdings |-> IF reduced.qty = 0 THEN Tail(st.holdings)
                           ELSE <<reduced>> \o Tail(st.holdings),
              remainingQty |-> st.remainingQty - qtyToSell,
              records |-> Append(st.records,
                 [symbol |-> trade.symbol, name |-> trade.name,
                  isOption |-> optionsInfo # Null, optionsInfo |-> optionsInfo,
                  sellDate |-> trade.date, buyDate |-> holding.date,
                  qty |-> qtyToSell, sellPrice |-> sellPricePerUnit,
                  costBasis |-> costBasis, proceeds |-> netProceedsForLot,
                  capitalGain |-> capitalGainForLot,
                  holdingPeriod |-> holdingPeriod, isLongTerm |-> holdingPeriod >= 365,
                  currency |-> "AUD", market |-> trade.market])],
             trade, optionsInfo)
  ELSE st

\* the loop of a sell inside the window.  st = [holdings, remainingQty, records]
RECURSIVE CGSellLoop(_, _, _)
CGSellLoop(st, trade, optionsInfo) ==
  IF st.remainingQty > 0 /\ Len(st.holdings) > 0
  THEN LET holding == st.holdings[1]
           qtyToSell == Min(st.remainingQty, holding.qty)
           sellPricePerUnit == IF trade.qty > 0 THEN RDiv(trade.amountAUD, R(trade.qty))
                               ELSE Zero
           totalCommissionAndFees == RAdd(trade.commissionAUD, trade.feesAUD)
           costPerShare == RDiv(holding.cost, R(holding.qty))
           costBasis == RMul(costPerShare, R(qtyToSell))
           proceedsForLot == RMul(R(qtyToSell), sellPricePerUnit)
           commissionAndFeesForLot ==
             RMul(totalCommissionAndFees, RDiv(R(qtyToSell), R(trade.qty)))
           netProceedsForLot == RSub(proceedsForLot, commissionAndFeesForLot)
           capitalGainForLot == RSub(netProceedsForLot, costBasis)
           holdingPeriod == (trade.date - holding.date) \div TicksPerDay
           reduced == [holding EXCEPT !.qty = @ - qtyToSell, !.cost = RSub(@, costBasis)]
       IN  CGSellLoop(
             [holdings |-> IF reduced.qty = 0 THEN Tail(st.holdings)
                           ELSE <<reduced>> \o Tail(st.holdings),
              remainingQty |-> st.remainingQty - qtyToSell,
              records |-> Append(st.records,
                 [symbol |-> trade.symbol, name |-> trade.name,
                  isOption |-> optionsInfo # Null, optionsInfo |-> optionsInfo,
                  sellDate |-> trade.date, buyDate |-> holding.date,
                  qty |-> qtyToSell, sellPrice |-> sellPricePerUnit,
                  costBasis |-> costBasis, proceeds |-> netProceedsForLot,
                  capitalGain |-> capitalGainForLot,
                  holdingPeriod |-> holdingPeriod, isLongTerm |-> holdingPeriod >= 365,
                  currency |-> "AUD", market |-> trade.market])],
             trade, optionsInfo)
  ELSE st

\* the loop of a sell outside the window: quantities only
RECURSIVE CGHistoricalLoop(_)
CGHistoricalLoop(st) ==
  IF st.remainingQty > 0 /\ Len(st.holdings) > 0
  THEN LET holding == st.holdings[1]
           qtyToSell == Min(st.remainingQty, holding.qty)
           reduced == [holding EXCEPT !.qty = @ - qtyToSell]
       IN  CGHistoricalLoop(
             [holdings |-> IF reduced.qty = 0 THEN Tail(st.holdings)
                           ELSE <<reduced>> \o Tail(st.holdings),
              remainingQty |-> st.remainingQty - qtyToSell,
              records |-> st.records])
  ELSE st

\* one trade of the replay.  acc = [holdings, records, dropped]; dropped keeps,
\* per sell, the quantity left over when the holdings ran out
CGStep(acc, trade, k, optionsInfo, financialYear, clock) ==
  IF trade.side = "Buy"
  THEN LET totalCost == RAdd(RAdd(trade.amountAUD, trade.commissionAUD), trade.feesAUD)
       IN  [acc EXCEPT !.holdings =
              Append(@, [qty |-> trade.qty, price |-> trade.price,
                         priceAUD |-> RDiv(trade.amountAUD, R(trade.qty)),
                         date |-> trade.date, cost |-> totalCost, lot |-> k])]
  ELSE IF trade.side = "Sell"
  THEN LET inWindow == /\ trade.date >= cutoffDateStart(financialYear)
                       /\ trade.date <= cutoffDateEnd(financialYear, clock)
           start == [holdings |-> acc.holdings, remainingQty |-> trade.qty,
                     records |-> <<>>]
           loop == IF inWindow THEN CGSellLoop(start, trade, optionsInfo)
                   ELSE CGHistoricalLoop(start)
       IN  [holdings |-> loop.holdings,
            records |-> acc.records \o loop.records,
            dropped |-> Append(acc.dropped,
                          [trade |-> k, qty |-> trade.qty, inWindow |-> inWindow,
                           remainingQty |-> loop.remainingQty,
                           slices |-> loop.records])]
  ELSE acc

RECURSIVE CGReplay(_, _, _, _, _)
CGReplay(trades, k, optionsInfo, financialYear, clock) ==
  IF k = 0 THEN [holdings |-> <<>>, records |-> <<>>, dropped |-> <<>>]
  ELSE CGStep(CGReplay(trades, k - 1, optionsInfo, financialYear, clock),
              trades[k], k, optionsInfo, financialYear, clock)

\* parseOptionsSymbol(symbol) with didExpire as the replay leaves it: the object is
\* shared by the symbol's records and written at every trade
CGOptionsInfo(symbol, trades, clock) ==
  LET optionsInfo == parseOptionsSymbol(symbol, clock)
  IN  IF optionsInfo = Null THEN Null
      ELSE [underlying |-> optionsInfo.underlying, expiryDate |-> optionsInfo.expiryDate,
            optionType |-> optionsInfo.optionType, strikePrice |-> optionsInfo.strikePrice,
            isExpired |-> optionsInfo.isExpired,
            didExpire |-> IF trades = <<>> THEN FALSE ELSE trades[Len(trades)].isSynthetic]

CGSymbolReplay(g, financialYear, clock) ==
  LET trades == SortByDate(g.trades)
  IN  CGReplay(trades, Len(trades), CGOptionsInfo(g.symbol, trades, clock),
               financialYear, clock)

\* Array.prototype.sort((a, b) => b.sellDate - a.sellDate): stable, descending
RECURSIVE InsertBySellDateDesc(_, _)
InsertBySellDateDesc(sorted, r) ==
  IF sorted = <<>> THEN <<r>>
  ELSE IF sorted[Len(sorted)].sellDate >= r.sellDate THEN Append(sorted, r)
  ELSE Append(InsertBySellDateDesc(SubSeq(sorted, 1, Len(sorted) - 1), r),
              sorted[Len(sorted)])

RECURSIVE SortBySellDateDesc(_)
SortBySellDateDesc(rs) ==
  IF rs = <<>> THEN <<>>
  ELSE InsertBySellDateDesc(SortBySellDateDesc(SubSeq(rs, 1, Len(rs) - 1)), rs[Len(rs)])

RECURSIVE CGCollect(_, _, _, _)
CGCollect(symbolGroups, i, financialYear, clock) ==
  IF i = 0 THEN <<>>
  ELSE CGCollect(symbolGroups, i - 1, financialYear, clock)
       \o CGSymbolReplay(symbolGroups[i], financialYear, clock).records

calculateCapitalGains(rows, financialYear, rates, clock) ==
  LET symbolGroups == CGSymbolGroups(rows, rates, clock)
  IN  SortBySellDateDesc(CGCollect(symbolGroups, Len(symbolGroups), financialYear, clock))


\* server.js calculateCapitalGains: one record for each sell inside the window
RECURSIVE CGServerLoop(_)
CGServerLoop(st) ==
  IF st.remainingQty > 0 /\ Len(st.holdings) > 0
  THEN LET holding == st.holdings[1]
           qtyToSell == Min(st.remainingQty, holding.qty)
           costPerShare == RDiv(holding.cost, R(holding.qty))
           costBasis == RMul(costPerShare, R(qtyToSell))
           reduced == [holding EXCEPT !.qty = @ - qtyToSell, !.cost = RSub(@, costBasis)]
       IN  CGServerLoop(
             [holdings |-> IF reduced.qty = 0 THEN Tail(st.holdings)
                           ELSE <<reduced>> \o Tail(st.holdings),
              remainingQty |-> st.remainingQty - qtyToSell,
              totalCost |-> RAdd(st.totalCost, costBasis),
              soldHoldings |-> Append(st.soldHoldings,
                                      [date |-> holding.date, qty |-> qtyToSell])])
  ELSE st

RECURSIVE MinDate(_)
MinDate(hs) ==
  IF Len(hs) = 1 THEN hs[1].date ELSE Min(hs[1].date, MinDate(Tail(hs)))

calculateHoldingPeriodFromSold(soldHoldings, sellDate) ==
  IF soldHoldings = <<>> THEN 0 ELSE (sellDate - MinDate(soldHoldings)) \div TicksPerDay

CGServerStep(acc, trade, k, optionsInfo, financialYear, clock) ==
  IF trade.side = "Buy"
  THEN LET totalCost == RAdd(RAdd(trade.amountAUD, trade.commissionAUD), trade.feesAUD)
       IN  [acc EXCEPT !.holdings =
              Append(@, [qty |-> trade.qty, price |-> trade.price,
                         priceAUD |-> RDiv(trade.amountAUD, R(trade.qty)),
                         date |-> trade.date, cost |-> totalCost, lot |-> k])]
  ELSE IF trade.side = "Sell"
  THEN LET inWindow == /\ trade.date >= cutoffDateStart(financialYear)
                       /\ trade.date <= cutoffDateEnd(financialYear, clock)
           loop == CGServerLoop([holdings |-> acc.holdings, remainingQty |-> trade.qty,
                                 totalCost |-> Zero, soldHoldings |-> <<>>])
           hist == CGHistoricalLoop([holdings |-> acc.holdings, remainingQty |-> trade.qty,
                                     records |-> <<>>])
           netProceeds == RSub(RSub(trade.amountAUD, trade.commissionAUD), trade.feesAUD)
           record ==
             [symbol |-> trade.symbol, name |-> trade.name,
              isOption |-> optionsInfo # Null, optionsInfo |-> optionsInfo,
              sellDate |-> trade.date,
              buyDate |-> IF Len(loop.soldHoldings) > 0 THEN loop.soldHoldings[1].date
                          ELSE -1,
              qty |-> trade.qty,
              sellPrice |-> IF trade.qty > 0 THEN RDiv(trade.amountAUD, R(trade.qty))
                            ELSE Zero,
              costBasis |-> loop.totalCost, proceeds |-> netProceeds,
              capitalGain |-> RSub(netProceeds, loop.totalCost),
              holdingPeriod |-> calculateHoldingPeriodFromSold(loop.soldHoldings, trade.date),
              currency |-> "AUD", market |-> trade.market]
       IN  IF inWindow
           THEN [holdings |-> loop.holdings,
                 records |-> Append(acc.records, record),
                 dropped |-> Append(acc.dropped,
                               [trade |-> k, qty |-> trade.qty, inWindow |-> TRUE,
                                remainingQty |-> loop.remainingQty,
                                slices |-> <<record>>])]
           ELSE [holdings |-> hist.holdings,
                 records |-> acc.records,
                 dropped |-> Append(acc.dropped,
                               [trade |-> k, qty |-> trade.qty, inWindow |-> FALSE,
                                remainingQty |-> hist.remainingQty,
                                slices |-> <<>>])]
  ELSE acc

RECURSIVE CGServerReplay(_, _, _, _, _)
CGServerReplay(trades, k, optionsInfo, financialYear, clock) ==
  IF k = 0 THEN [holdings |-> <<>>, records |-> <<>>, dropped |-> <<>>]
  ELSE CGServerStep(CGServerReplay(trades, k - 1, optionsInfo, financialYear, clock),
                    trades[k], k, optionsInfo, financialYear, clock)

CGServerSymbolReplay(g, financialYear, clock) ==
  LET trades == SortByDate(g.trades)
  IN  CGServerReplay(trades, Len(trades), CGOptionsInfo(g.symbol, trades, clock),
                     financialYear, clock)

RECURSIVE CGServerCollect(_, _, _, _)
CGServerCollect(symbolGroups, i, financialYear, clock) ==
  IF i = 0 THEN <<>>
  ELSE CGServerCollect(symbolGroups, i - 1, financialYear, clock)
       \o CGServerSymbolReplay(symbolGroups[i], financialYear, clock).records

calculateCapitalGains_server(rows, financialYear, rates, clock) ==
  LET symbolGroups == CGSymbolGroups(rows, rates, clock)
  IN  SortBySellDateDesc(
        CGServerCollect(symbolGroups, Len(symbolGroups), financialYear, clock))

\* the sum of one field over the first k elements
RECURSIVE SumField(_, _, _)
SumField(seq, field, k) ==
  IF k = 0 THEN Zero ELSE RAdd(SumField(seq, field, k - 1), seq[k][field])

\* ------------------------------------------------------ performance series
startDate(timeframe, clock) ==
  LET today == CivilFromDays(DateKey(clock))
  IN  IF timeframe = "3m" THEN FirstOfMonth(today.year, today.month - 1 - 3)
      ELSE IF timeframe = "6m" THEN FirstOfMonth(today.year, today.month - 1 - 6)
      ELSE IF timeframe = "1y" THEN FirstOfMonth(today.year - 1, today.month - 1)
      ELSE DateOf(2000, 1, 1)

\* the gains sold since start, each with its gain in the display currency
RECURSIVE ConvertedGains(_, _, _, _, _)
ConvertedGains(gains, k, start, displayCurrency, rates) ==
  IF k = 0 THEN <<>>
  ELSE IF gains[k].sellDate >= start
  THEN Append(ConvertedGains(gains, k - 1, start, displayCurrency, rates),
              [sellDate |-> gains[k].sellDate, capitalGain |-> gains[k].capitalGain,
               symbol |-> gains[k].symbol, qty |-> gains[k].qty,
               convertedGain |->
                 IF displayCurrency = "AUD" THEN gains[k].capitalGain
                 ELSE convertCurrency(rates, gains[k].capitalGain, "AU", "US",
                                      gains[k].sellDate)])
  ELSE ConvertedGains(gains, k - 1, start, displayCurrency, rates)

\* Array.prototype.sort((a, b) => a.sellDate - b.sellDate): stable, ascending
RECURSIVE InsertBySellDate(_, _)
InsertBySellDate(sorted, r) ==
  IF sorted = <<>> THEN <<r>>
  ELSE IF sorted[Len(sorted)].sellDate <= r.sellDate THEN Append(sorted, r)
  ELSE Append(InsertBySellDate(SubSeq(sorted, 1, Len(sorted) - 1), r),
              sorted[Len(sorted)])

RECURSIVE SortBySellDate(_)
SortBySellDate(rs) ==
  IF rs = <<>> THEN <<>>
  ELSE InsertBySellDate(SortBySellDate(SubSeq(rs, 1, Len(rs) - 1)), rs[Len(rs)])

\* the Monday the code takes for the week of a sale: sellDate - getDay() + 1 days
MondayOf(sellDate) == CivilFromDays(DateKey(sellDate) - getDay(sellDate) + 1)

WeekKey(monday) == <<monday.year, "W", (monday.day + 6) \div 7, monday.month>>

periodKey(sellDate, useWeeklyAggregation) ==
  IF useWeeklyAggregation THEN WeekKey(MondayOf(sellDate))
  ELSE <<CivilFromDays(DateKey(sellDate)).year, CivilFromDays(DateKey(sellDate)).month>>

PeriodIndex(periodData, key) ==
  IF \E i \in 1..Len(periodData) : periodData[i].period = key
  THEN CHOOSE i \in 1..Len(periodData) : periodData[i].period = key
  ELSE 0

PeriodAdd(periodData, i, key, gain, useWeeklyAggregation) ==
  IF i = 0
  THEN Append(periodData,
              [period |-> key, trades |-> 1, totalPnL |-> gain.convertedGain,
               winningTrades |-> IF RLess(Zero, gain.convertedGain) THEN 1 ELSE 0,
               date |-> gain.sellDate, isWeekly |-> useWeeklyAggregation])
  ELSE [periodData EXCEPT
          ![i].trades = @ + 1,
          ![i].totalPnL = RAdd(@, gain.convertedGain),
          ![i].winningTrades = @ + (IF RLess(Zero, gain.convertedGain) THEN 1 ELSE 0)]

PeriodPut(periodData, key, gain, useWeeklyAggregation) ==
  PeriodAdd(periodData, PeriodIndex(periodData, key), key, gain, useWeeklyAggregation)

RECURSIVE PeriodData(_, _, _)
PeriodData(filteredGains, k, useWeeklyAggregation) ==
  IF k = 0 THEN <<>>
  ELSE PeriodPut(PeriodData(filteredGains, k - 1, useWeeklyAggregation),
                 periodKey(filteredGains[k].sellDate, useWeeklyAggregation),
                 filteredGains[k], useWeeklyAggregation)

\* Array.prototype.sort((a, b) => a.date - b.date): stable, ascending
RECURSIVE InsertByPeriodDate(_, _)
InsertByPeriodDate(sorted, r) ==
  IF sorted = <<>> THEN <<r>>
  ELSE IF sorted[Len(sorted)].date <= r.date THEN Append(sorted, r)
  ELSE Append(InsertByPeriodDate(SubSeq(sorted, 1, Len(sorted) - 1), r),
              sorted[Len(sorted)])

RECURSIVE SortByPeriodDate(_)
SortByPeriodDate(rs) ==
  IF rs = <<>> THEN <<>>
  ELSE InsertByPeriodDate(SortByPeriodDate(SubSeq(rs, 1, Len(rs) - 1)), rs[Len(rs)])

ChartPoint(period, runningTotal) ==
  [period |-> period.period, trades |-> period.trades, totalPnL |-> period.totalPnL,
   winningTrades |-> period.winningTrades, date |-> period.date,
   isWeekly |-> period.isWeekly,
   cumulativePnL |-> runningTotal,
   avgPnLPerTrade |-> IF period.trades > 0 THEN RDiv(period.totalPnL, R(period.trades))
                      ELSE Zero,
   winRate |-> IF period.trades > 0 THEN Norm(period.winningTrades * 100, period.trades)
               ELSE Zero,
   displayLabel |-> IF period.isWeekly THEN <<"Week of", DateKey(period.date)>>
                    ELSE period.period]

\* a variant that gives every point its own period's total in place of the running
\* total, against which the cumulative series is tested
RECURSIVE ChartDataPerPeriod(_, _)
ChartDataPerPeriod(periodArray, k) ==
  IF k = 0 THEN <<>>
  ELSE Append(ChartDataPerPeriod(periodArray, k - 1),
              ChartPoint(periodArray[k], periodArray[k].totalPnL))

RECURSIVE ChartData(_, _)
ChartData(periodArray, k) ==
  IF k = 0 THEN <<>>
  ELSE Append(ChartData(periodArray, k - 1),
              ChartPoint(periodArray[k], SumField(periodArray, "totalPnL", k)))

\* chartData.reduce((best, month) => month.totalPnL > (best?.totalPnL || -Infinity)
\*                                    ? month : best, null)
RECURSIVE bestMonth(_, _)
bestMonth(chartData, k) ==
  IF k = 0 THEN Null
  ELSE IF \/ bestMonth(chartData, k - 1) = Null
          \/ bestMonth(chartData, k - 1).totalPnL = Zero
          \/ RLess(bestMonth(chartData, k - 1).totalPnL, chartData[k].totalPnL)
       THEN chartData[k]
       ELSE bestMonth(chartData, k - 1)

RECURSIVE worstMonth(_, _)
worstMonth(chartData, k) ==
  IF k = 0 THEN Null
  ELSE IF \/ worstMonth(chartData, k - 1) = Null
          \/ worstMonth(chartData, k - 1).totalPnL = Zero
          \/ RLess(chartData[k].totalPnL, worstMonth(chartData, k - 1).totalPnL)
       THEN chartData[k]
       ELSE worstMonth(chartData, k - 1)

\* { amount: month.totalPnL, period: month.month }: chart points have no month
MonthSummary(month) ==
  IF month = Null THEN Null ELSE [amount |-> month.totalPnL, period |-> "undefined"]

Winning(filteredGains) ==
  Len(SelectSeq(filteredGains, LAMBDA gain : RLess(Zero, gain.convertedGain)))

PerformanceOf(filteredGains, chartData, timeframe, metric, displayCurrency) ==
  [chartData |-> chartData,
   summary |->
     [totalPnL |-> IF Len(chartData) > 0 THEN chartData[Len(chartData)].cumulativePnL
                   ELSE Zero,
      totalTrades |-> Len(filteredGains),
      winRate |-> IF Len(filteredGains) > 0
                  THEN Norm(Winning(filteredGains) * 100, Len(filteredGains))
                  ELSE Zero,
      bestMonth |-> MonthSummary(bestMonth(chartData, Len(chartData))),
      worstMonth |-> MonthSummary(worstMonth(chartData, Len(chartData)))],
   timeframe |-> timeframe, metric |-> metric, currency |-> displayCurrency]

PerformanceOfPeriods(filteredGains, periodArray, timeframe, metric, displayCurrency) ==
  PerformanceOf(filteredGains, ChartData(periodArray, Len(periodArray)), timeframe,
                metric, displayCurrency)

\* a variant that buckets by week for every timeframe but "all", against which the
\* monthly buckets of a year's window are tested
PerformanceOfGainsWeeklyUnlessAll(filteredGains, timeframe, metric, displayCurrency) ==
  PerformanceOfPeriods(
    filteredGains,
    SortByPeriodDate(PeriodData(filteredGains, Len(filteredGains), timeframe # "all")),
    timeframe, metric, displayCurrency)

PerformanceOfGains(filteredGains, timeframe, metric, displayCurrency) ==
  PerformanceOfPeriods(
    filteredGains,
    SortByPeriodDate(PeriodData(filteredGains, Len(filteredGains),
                                timeframe # "all" /\ timeframe # "1y")),
    timeframe, metric, displayCurrency)

FilteredGains(allCapitalGains, start, displayCurrency, rates) ==
  SortBySellDate(ConvertedGains(allCapitalGains, Len(allCapitalGains), start,
                                displayCurrency, rates))

calculatePerformanceData(rows, timeframe, metric, displayCurrency, rates, clock) ==
  PerformanceOfGains(
    FilteredGains(calculateCapitalGains(rows, NoYear, rates, clock),
                  startDate(timeframe, clock), displayCurrency, rates),
    timeframe, metric, displayCurrency)

\* -------------------------------------------------------- portfolio summary
\* Array.prototype.sort((a, b) => b.totalVolume - a.totalVolume): stable, descending
RECURSIVE InsertByVolumeDesc(_, _)
InsertByVolumeDesc(sorted, r) ==
  IF sorted = <<>> THEN <<r>>
  ELSE IF RLeq(r.totalVolume, sorted[Len(sorted)].totalVolume) THEN Append(sorted, r)
  ELSE Append(InsertByVolumeDesc(SubSeq(sorted, 1, Len(sorted) - 1), r),
              sorted[Len(sorted)])

RECURSIVE SortByVolumeDesc(_)
SortByVolumeDesc(rs) ==
  IF rs = <<>> THEN <<>>
  ELSE InsertByVolumeDesc(SortByVolumeDesc(SubSeq(rs, 1, Len(rs) - 1)), rs[Len(rs)])

getCurrencySymbol(currency) == IF currency = "AU" \/ currency = "AUD" THEN "AUD" ELSE "USD"

SymbolStatOf(fifoData, displayCurrency, optionsInfo, sells) ==
  [symbol |-> fifoData.symbol, name |-> fifoData.name,
   totalVolume |-> RAdd(fifoData.buyVolume, fifoData.sellVolume),
   buyVolume |-> fifoData.buyVolume, sellVolume |-> fifoData.sellVolume,
   netPosition |-> fifoData.netPosition, avgBuyPrice |-> fifoData.avgBuyPrice,
   avgSellPrice |-> IF RLess(Zero, fifoData.sellVolume)
                    THEN RDiv(fifoData.sellVolume, R(IF sells > 1 THEN sells ELSE 1))
                    ELSE Zero,
   totalPnL |-> fifoData.totalPnL,
   isOption |-> optionsInfo # Null, optionsInfo |-> optionsInfo,
   trades |-> fifoData.trades, historicalCostBasis |-> 0,
   market |-> fifoData.market, displayCurrency |-> displayCurrency]

SymbolStat(fifoData, displayCurrency, clock) ==
  SymbolStatOf(fifoData, displayCurrency, parseOptionsSymbol(fifoData.symbol, clock),
               Len(SelectSeq(fifoData.trades, LAMBDA t : t.side = "Sell")))

\* a variant of the filter that keeps expired options, against which the exclusion
\* of expired options is tested
IsCurrentPositionExpiredToo(pos) == 10 * Abs(pos.netPosition) >= 1

\* the filter of currentPositions; Math.abs(netPosition) >= 0.1
IsCurrentPosition(pos) ==
  LET hasSignificantPosition == 10 * Abs(pos.netPosition) >= 1
  IN  IF pos.isOption THEN ~pos.optionsInfo.isExpired /\ hasSignificantPosition
      ELSE hasSignificantPosition

SummaryOf(totalTrades, symbolStats, displayCurrency, buyVolume, sellVolume) ==
  [totalTrades |-> totalTrades, filledTrades |-> totalTrades,
   totalVolume |-> RAdd(buyVolume, sellVolume),
   buyVolume |-> buyVolume,
   sellVolume |-> sellVolume,
   totalPnL |-> SumField(symbolStats, "totalPnL", Len(symbolStats)),
   currency |-> displayCurrency, currencySymbol |-> getCurrencySymbol(displayCurrency),
   symbolStats |-> SortByVolumeDesc(symbolStats),
   currentPositions |-> SortByVolumeDesc(SelectSeq(symbolStats, IsCurrentPosition))]

SummaryOfStats(totalTrades, symbolStats, displayCurrency) ==
  SummaryOf(totalTrades, symbolStats, displayCurrency,
            SumField(symbolStats, "buyVolume", Len(symbolStats)),
            SumField(symbolStats, "sellVolume", Len(symbolStats)))

RECURSIVE SymbolStats(_, _, _, _)
SymbolStats(fifoCalculations, k, displayCurrency, clock) ==
  IF k = 0 THEN <<>>
  ELSE Append(SymbolStats(fifoCalculations, k - 1, displayCurrency, clock),
              SymbolStat(fifoCalculations[k], displayCurrency, clock))

SummaryOfFIFO(totalTrades, fifoCalculations, displayCurrency, clock) ==
  SummaryOfStats(totalTrades,
                 SymbolStats(fifoCalculations, Len(fifoCalculations), displayCurrency,
                             clock),
                 displayCurrency)

calculatePortfolioSummary(rows, displayCurrency, rates, clock) ==
  SummaryOfFIFO(Len(SelectSeq(rows, LAMBDA r : isExecutedStatus(r.Status))),
                calculateFIFOPnL(rows, displayCurrency, rates, clock),
                displayCurrency, clock)

\* ------------------------------------------------------------------ actions
NoResponse == [request |-> <<"none">>]

\* Map.set for every row of the rate source, first insertion keeps its place
RECURSIVE MapSetAll(_, _)
MapSetAll(map, rows) ==
  IF rows = <<>> THEN map
  ELSE LET r == Head(rows)
           i == MapIndex(map, r.key)
       IN  MapSetAll(IF ~RLess(Zero, r.rate) THEN map
                     ELSE IF i = 0 THEN Append(map, r)
                     ELSE [map EXCEPT ![i].rate = r.rate],
                     Tail(rows))

\* all.filter(row => row.Symbol && row.Side && isExecutedStatus(row.Status))
ExecutedRows(rows) ==
  SelectSeq(rows, LAMBDA r : r.Symbol # "" /\ r.Side # "" /\ isExecutedStatus(r.Status))

\* loadCurrencyRates resolves: the table holds the rows of the rate source
LoadCurrencyRates ==
  /\ boot = "rates"
  /\ currencyRates' = MapSetAll(currencyRates, rateFeed)
  /\ boot' = "trades"
  /\ lastCG' = NoResponse
  /\ UNCHANGED <<portfolioData, tradesLoaded, file, rateFeed, now, response>>

\* loadPortfolioData reads the trades file to its end, at start-up after the rates
\* or on load-trades-file / Open Trading Data / Reload at any time
LoadPortfolioData ==
  /\ portfolioData' = ExecutedRows(file)
  /\ tradesLoaded' = TRUE
  /\ boot' = IF boot = "trades" THEN "done" ELSE boot
  /\ lastCG' = NoResponse
  /\ UNCHANGED <<currencyRates, file, rateFeed, now, response>>

\* time passes
Tick(clocks) ==
  /\ \E t \in clocks : t > now /\ now' = t
  /\ lastCG' = NoResponse
  /\ UNCHANGED <<currencyRates, portfolioData, tradesLoaded, file, rateFeed, boot, response>>

\* ipcMain.handle('get-portfolio-summary'); index.html, which asks, is shown once
\* trades are loaded
GetPortfolioSummary(currency) ==
  /\ tradesLoaded
  /\ response' = [request |-> <<"get-portfolio-summary", currency>>,
                  value |-> calculatePortfolioSummary(portfolioData, currency,
                                                      currencyRates, now)]
  /\ UNCHANGED <<currencyRates, portfolioData, tradesLoaded, file, rateFeed, boot, now,
                 lastCG>>

\* the synthetic sells of the groups, as rows like the first loaded row
RECURSIVE SyntheticRows(_, _)
SyntheticRows(symbolGroups, k) ==
  IF k = 0 THEN <<>>
  ELSE SyntheticRows(symbolGroups, k - 1) \o
       (IF symbolGroups[k].trades[Len(symbolGroups[k].trades)].isSynthetic
        THEN <<[portfolioData[1] EXCEPT
                  !.Symbol = symbolGroups[k].symbol, !.Side = "Sell",
                  !.FilledQty = symbolGroups[k].trades[Len(symbolGroups[k].trades)].qty,
                  !.AvgPrice = Zero, !.Commission = Zero, !.Total = Zero,
                  !.FillTime = symbolGroups[k].trades[Len(symbolGroups[k].trades)].date]>>
        ELSE <<>>)

\* a variant of the handler that leaves the synthetic sells it added in the loaded
\* trades, against which the independence of the reports is tested
GetCapitalGainsKeepingSynthetic(financialYear) ==
  /\ tradesLoaded
  /\ response' = [request |-> <<"get-capital-gains", financialYear>>,
                  value |-> calculateCapitalGains(portfolioData, financialYear,
                                                  currencyRates, now)]
  /\ lastCG' = response'
  /\ portfolioData' =
       portfolioData \o
         SyntheticRows(CGSymbolGroups(portfolioData, currencyRates, now),
                       Len(CGSymbolGroups(portfolioData, currencyRates, now)))
  /\ UNCHANGED <<currencyRates, tradesLoaded, file, rateFeed, boot, now>>

\* ipcMain.handle('get-capital-gains')
GetCapitalGains(financialYear) ==
  /\ tradesLoaded
  /\ response' = [request |-> <<"get-capital-gains", financialYear>>,
                  value |-> calculateCapitalGains(portfolioData, financialYear,
                                                  currencyRates, now)]
  /\ lastCG' = response'
  /\ UNCHANGED <<currencyRates, portfolioData, tradesLoaded, file, rateFeed, boot, now>>

\* ipcMain.handle('get-performance-data')
GetPerformanceData(timeframe, metric, currency) ==
  /\ tradesLoaded
  /\ response' = [request |-> <<"get-performance-data", timeframe, metric, currency>>,
                  value |-> calculatePerformanceData(portfolioData, timeframe, metric,
                                                     currency, currencyRates, now)]
  /\ UNCHANGED <<currencyRates, portfolioData, tradesLoaded, file, rateFeed, boot, now,
                 lastCG>>

\* app.get('/api/capital-gains') of server.js
ServerGetCapitalGains(financialYear) ==
  /\ tradesLoaded
  /\ response' = [request |-> <<"/api/capital-gains", financialYear>>,
                  value |-> calculateCapitalGains_server(portfolioData, financialYear,
                                                         currencyRates, now)]
  /\ UNCHANGED <<currencyRates, portfolioData, tradesLoaded, file, rateFeed, boot, now,
                 lastCG>>

\* a call of getUSDToAUDRate(date) of main.js, made once the table is loaded
GetUSDToAUDRate(date) ==
  /\ boot # "rates"
  /\ response' = [request |-> <<"getUSDToAUDRate", date>>,
                  value |-> getUSDToAUDRate(currencyRates, date)]
  /\ UNCHANGED <<currencyRates, portfolioData, tradesLoaded, file, rateFeed, boot, now,
                 lastCG>>

\* a call of getUSDToAUDRate(date) of server.js
ServerGetUSDToAUDRate(date) ==
  /\ boot # "rates"
  /\ response' = [request |-> <<"server.getUSDToAUDRate", date>>,
                  value |-> getUSDToAUDRate_server(currencyRates, date)]
  /\ UNCHANGED <<currencyRates, portfolioData, tradesLoaded, file, rateFeed, boot, now,
                 lastCG>>

\* ------------------------------------------------------------------ inputs
Row(symbol, side, qty, price, time, commission, market) ==
  [Symbol |-> symbol, Side |-> side, Status |-> "Filled",
   FilledQty |-> qty, AvgPrice |-> R(price), FillTime |-> time,
   Commission |-> R(commission), Total |-> Zero, Name |-> symbol, market |-> market]

\* sequences of 1..n elements of set
SeqsUpTo(set, n) == UNION {[1..k -> set] : k \in 1..n}

RateRow(y, m, d, rate) == [key |-> DaysFromCivil(y, m, d), rate |-> rate]

\* the state once the rate table is loaded and the trades file is about to be read
LoadedRates(files, feeds, clocks) ==
  /\ file \in files
  /\ rateFeed \in feeds
  /\ currencyRates = MapSetAll(<<>>, rateFeed)
  /\ portfolioData = <<>>
  /\ tradesLoaded = FALSE
  /\ boot = "trades"
  /\ now \in clocks
  /\ response = NoResponse
  /\ lastCG = NoResponse

\* ------------------------------------------------ FIFO lot engine: the replay
\* one symbol a file: a US share, or a US option that expired before the clock
FifoDay == DateOf(2024, 1, 8)
FifoClock == DateOf(2024, 3, 1)
FifoSymbols == {"AAPL", "SPY240119C480000"}

FifoRows(symbol) ==
  {Row(symbol, side, qty, 10 + 2 * qty, time, 1, "US") :
     side \in {"Buy", "Sell"}, qty \in 1..MaxQty, time \in {FifoDay, FifoDay + 1}}

\* the example of the specification: Buy(100@10), Buy(50@12), Sell(120@20)
FifoExample ==
  <<Row("AAPL", "Buy", 100, 10, FifoDay, 0, "US"),
    Row("AAPL", "Buy", 50, 12, FifoDay + 1, 0, "US"),
    Row("AAPL", "Sell", 120, 20, FifoDay + 2, 1, "US")>>

FifoFiles ==
  UNION {SeqsUpTo(FifoRows(symbol), MaxTrades) : symbol \in FifoSymbols} \cup {FifoExample}

FifoFeeds == {<<RateRow(2024, 3, 1, <<3, 2>>)>>}

InitFifo == LoadedRates(FifoFiles, FifoFeeds, {FifoClock})

NextFifo ==
  \/ LoadPortfolioData
  \/ \E currency \in {"AUD", "USD"} : GetPortfolioSummary(currency)

SpecFifo == InitFifo /\ [][NextFifo]_vars

\* the groups the summary replayed, for the answer it gave
SummaryAnswered == response.request[1] = "get-portfolio-summary"
ReplayedGroups == FIFOSymbolGroups(portfolioData, now)

\* the answer's entry for a symbol
StatOf(symbol) ==
  LET stats == response.value.symbolStats
  IN  stats[CHOOSE i \in 1..Len(stats) : stats[i].symbol = symbol]

\* every sell finds open long lots for its whole quantity
Covered(trades) ==
  \A k \in 1..Len(trades) :
    trades[k].side = "Sell" =>
      SumQty(SubSeq(trades, 1, k), "Sell") <= SumQty(SubSeq(trades, 1, k - 1), "Buy")

\* what a unit of the lot a buy opened cost: (amount + commission + fees) / quantity
CostPerUnit(trade) ==
  RDiv(RAdd(RAdd(trade.amount, trade.commission), trade.fees), R(trade.qty))

RECURSIVE StepsCost(_, _, _)
StepsCost(trades, steps, k) ==
  IF k = 0 THEN Zero
  ELSE RAdd(StepsCost(trades, steps, k - 1),
            RMul(CostPerUnit(trades[steps[k].lot]), R(steps[k].qty)))

RECURSIVE StepsQty(_, _)
StepsQty(steps, k) == IF k = 0 THEN 0 ELSE StepsQty(steps, k - 1) + steps[k].qty

RECURSIVE SumRealized(_, _)
SumRealized(sells, k) ==
  IF k = 0 THEN Zero ELSE RAdd(SumRealized(sells, k - 1), sells[k].realizedPnL)

\* a step takes from the oldest open lot, and leaves it only exhausted or with the
\* sell complete
OldestFirst(step) ==
  /\ \A i \in 1..Len(step.open) : step.open[i].qty > 0 /\ step.lot <= step.open[i].lot
  /\ step.qty > 0
  /\ step.qty = step.remainingBefore \/ step.qty = step.headQty

SellIsFifo(trades, sell) ==
  /\ sell.uncovered = 0
  /\ \A j \in 1..Len(sell.steps) : OldestFirst(sell.steps[j])
  /\ \A j \in 2..Len(sell.steps) : sell.steps[j - 1].lot < sell.steps[j].lot
  /\ StepsQty(sell.steps, Len(sell.steps)) = trades[sell.trade].qty
  /\ sell.realizedPnL =
       RSub(RSub(RSub(trades[sell.trade].amount, trades[sell.trade].commission),
                 trades[sell.trade].fees),
            StepsCost(trades, sell.steps, Len(sell.steps)))

ReplayIsFifo(symbol, trades, replay) ==
  /\ \A s \in 1..Len(replay.sells) : SellIsFifo(trades, replay.sells[s])
  /\ response.request[2] = "USD" /\ trades[1].market = "US" =>
       StatOf(symbol).totalPnL = SumRealized(replay.sells, Len(replay.sells))

GroupIsFifo(symbol, trades) ==
  Covered(trades) => ReplayIsFifo(symbol, trades, FIFOSorted(trades))

\* C1: in the replay of a symbol whose every sell is covered by open long lots,
\* each sell takes from the oldest open lot first, moving to the next lot only
\* when the older one is exhausted, and its realized gain is amount - commission -
\* fees less the cost per unit of each lot taken times the quantity taken from it;
\* the answer's realized P&L of the symbol is the sum of these gains
C1_OldestLotFirst ==
  SummaryAnswered =>
    \A i \in 1..Len(ReplayedGroups) :
      GroupIsFifo(ReplayedGroups[i].symbol, SortByDate(ReplayedGroups[i].trades))

\* C1: Buy(100@10), Buy(50@12), Sell(120@20) took the 100-lot whole, then 20 of the
\* 50-lot, and realized 2400 - 1 - (100 x 10 + 20 x 12)
C1_ExampleReplayed ==
  /\ SummaryAnswered
  /\ response.request[2] = "USD"
  /\ portfolioData = FifoExample
  /\ StatOf("AAPL").totalPnL = R(1159)
  /\ LET steps == FIFOSorted(SortByDate(ReplayedGroups[1].trades)).sells[1].steps
     IN  /\ Len(steps) = 2
         /\ steps[1].lot = 1 /\ steps[1].qty = 100
         /\ steps[2].lot = 2 /\ steps[2].qty = 20

\* a sell met an empty queue and the next trade is a buy of the same quantity
ShortRoundTrip(trades, k) ==
  /\ k < Len(trades)
  /\ trades[k].side = "Sell" /\ trades[k + 1].side = "Buy"
  /\ trades[k].qty = trades[k + 1].qty
  /\ trades[k].date < trades[k + 1].date
  /\ FIFOReplay(trades, k - 1).queue = <<>>

RoundTripClosed(trades, k) ==
  /\ FIFOReplay(trades, k + 1).queue = <<>>
  /\ \A j \in 1..Len(trades) : ~trades[j].isSynthetic

\* C2: for a symbol that is no option, once a sell has met an empty queue and
\* the buy of the same quantity that follows it is replayed, the queue holds no lot,
\* the net position is 0 and no synthetic trade was added
C2_ShortRoundTripCloses ==
  SummaryAnswered =>
    \A i \in 1..Len(ReplayedGroups) :
      ~isOption(ReplayedGroups[i].symbol) =>
        \A k \in 1..Len(ReplayedGroups[i].trades) :
          ShortRoundTrip(SortByDate(ReplayedGroups[i].trades), k) =>
            RoundTripClosed(SortByDate(ReplayedGroups[i].trades), k)

\* C2: the sell has opened the short lot and the buy has been replayed
C2_RoundTripReplayed ==
  /\ SummaryAnswered
  /\ Len(portfolioData) = 2
  /\ ShortRoundTrip(SortByDate(ReplayedGroups[1].trades), 1)
  /\ ~isOption(ReplayedGroups[1].symbol)
  /\ StatOf(ReplayedGroups[1].symbol).netPosition = 0

NoSynthetic(trades) == \A j \in 1..Len(trades) : ~trades[j].isSynthetic

\* C7: for a symbol whose replay holds real trades only, the net position the
\* answer reports, the sum of the signed quantities of the lots left, is the sum
\* of the buys' quantities less the sum of the sells' quantities
C7_NetPositionConserved ==
  SummaryAnswered =>
    \A i \in 1..Len(ReplayedGroups) :
      NoSynthetic(ReplayedGroups[i].trades) =>
        StatOf(ReplayedGroups[i].symbol).netPosition =
          SumQty(ReplayedGroups[i].trades, "Buy") - SumQty(ReplayedGroups[i].trades, "Sell")

\* C7: a sell exceeded the open lots and a later sell met the short lot at the head
C7_SellMeetsShortLot ==
  /\ SummaryAnswered
  /\ NoSynthetic(ReplayedGroups[1].trades)
  /\ LET sells == FIFOSorted(SortByDate(ReplayedGroups[1].trades)).sells
     IN  /\ Len(sells) = 2
         /\ sells[1].uncovered > 0 /\ Len(sells[1].steps) > 0
         /\ Len(sells[2].steps) > 0 /\ sells[2].steps[1].headQty < 0


\* ------------------------------------------------ capital gains: the reports
\* one symbol a file: a US option that expired on 2024-01-19, or with one trade
\* fewer a US share or a US option that has not expired; trades on the last day
\* before the financial year 2023, inside it, and in the course of the expiry day
GainsClock == DateOf(2024, 3, 1)
GainsDates == {DateOf(2023, 6, 30), DateOf(2024, 1, 8), DateOf(2024, 1, 19) + 1}
GainsYears == {NoYear, 2023}

GainsRows(symbol) ==
  {Row(symbol, side, qty, 10 + 2 * qty, time, 1, "US") :
     side \in {"Buy", "Sell"}, qty \in 1..MaxQty, time \in GainsDates}

GainsFiles ==
  SeqsUpTo(GainsRows("SPY240119C480000"), MaxTrades)
    \cup SeqsUpTo(GainsRows("AAPL"), MaxTrades - 1)
    \cup SeqsUpTo(GainsRows("SOFI251121C26000"), MaxTrades - 1)

GainsFeeds ==
  {<<RateRow(2023, 6, 30, <<7, 5>>), RateRow(2024, 1, 8, <<8, 5>>),
     RateRow(2024, 1, 19, <<9, 5>>), RateRow(2024, 3, 1, <<2, 1>>)>>}

InitGains == LoadedRates(GainsFiles, GainsFeeds, {GainsClock})

NextGains ==
  \/ LoadPortfolioData
  \/ \E financialYear \in GainsYears : GetCapitalGains(financialYear)
  \/ \E financialYear \in GainsYears : ServerGetCapitalGains(financialYear)

SpecGains == InitGains /\ [][NextGains]_vars

\* the report answered, by main.js or by server.js, and what it replayed
GainsAnswered == response.request[1] \in {"get-capital-gains", "/api/capital-gains"}
MainGainsAnswered == response.request[1] = "get-capital-gains"
GainsGroups == CGSymbolGroups(portfolioData, currencyRates, now)

RealTrades(trades) == SelectSeq(trades, LAMBDA t : ~t.isSynthetic)
SyntheticTrades(trades) == SelectSeq(trades, LAMBDA t : t.isSynthetic)
OnlyBuys(trades) == \A j \in 1..Len(trades) : trades[j].side = "Buy"
RecordsOf(records, symbol) == SelectSeq(records, LAMBDA r : r.symbol = symbol)

\* what the buys cost in AUD: amount, commission and fees
RECURSIVE BuyCostAUD(_, _)
BuyCostAUD(trades, k) ==
  IF k = 0 THEN Zero
  ELSE RAdd(BuyCostAUD(trades, k - 1),
            IF trades[k].side = "Buy"
            THEN RAdd(RAdd(trades[k].amountAUD, trades[k].commissionAUD), trades[k].feesAUD)
            ELSE Zero)

IsExpiryClose(t, n, expiryDate) ==
  /\ t.side = "Sell" /\ t.qty = n /\ t.price = Zero /\ t.amount = Zero
  /\ t.commission = Zero /\ t.fees = Zero /\ t.date = expiryDate

\* an expired option left long gets one synthetic sell of the quantity left, any
\* other symbol none
SyntheticAdded(symbol, optionsInfo, real, synthetic) ==
  IF optionsInfo # Null /\ optionsInfo.isExpired /\ 100 * NetQty(real) > 1
  THEN /\ Len(synthetic) = 1
       /\ IsExpiryClose(synthetic[1], NetQty(real), optionsInfo.expiryDate)
  ELSE synthetic = <<>>

\* the gain booked for an expired option that was only bought is minus what the
\* buys cost
ExpiryLossBooked(symbol, optionsInfo, real, records) ==
  optionsInfo # Null /\ optionsInfo.isExpired /\ 100 * NetQty(real) > 1 /\ OnlyBuys(real) =>
    SumField(records, "capitalGain", Len(records)) = RNeg(BuyCostAUD(real, Len(real)))

\* main.js and server.js: addExpiredOptionsLosses adds one synthetic sell of the
\* quantity left, at price 0, without commission or fees and dated at the expiry,
\* to an expired option left long, and none to any other symbol
SyntheticSellAdded ==
  GainsAnswered =>
    \A i \in 1..Len(GainsGroups) :
      SyntheticAdded(GainsGroups[i].symbol,
                     parseOptionsSymbol(GainsGroups[i].symbol, now),
                     RealTrades(GainsGroups[i].trades),
                     SyntheticTrades(GainsGroups[i].trades))

\* C3: an option that expired before now and whose real trades leave a net long
\* quantity n, none of them a sell, gets exactly one synthetic sell of n at price
\* 0 with no commission or fees, dated at the expiry, and the capital gain of
\* the records of that sell is minus the cost basis of the lots still open; no
\* synthetic trade is added for another symbol, an unexpired option or n <= 0.01
C3_SyntheticExpiryLoss ==
  MainGainsAnswered =>
    \A i \in 1..Len(GainsGroups) :
      /\ SyntheticAdded(GainsGroups[i].symbol,
                        parseOptionsSymbol(GainsGroups[i].symbol, now),
                        RealTrades(GainsGroups[i].trades),
                        SyntheticTrades(GainsGroups[i].trades))
      /\ ExpiryLossBooked(GainsGroups[i].symbol,
                          parseOptionsSymbol(GainsGroups[i].symbol, now),
                          RealTrades(GainsGroups[i].trades),
                          RecordsOf(response.value, GainsGroups[i].symbol))

\* C3: an expired option that was only bought, once before and once in the course
\* of the expiry day, was reported
C3_BoughtOnExpiryDay ==
  /\ MainGainsAnswered
  /\ Len(portfolioData) = 2
  /\ portfolioData[1].Symbol = "SPY240119C480000"
  /\ portfolioData[1].Side = "Buy" /\ portfolioData[2].Side = "Buy"
  /\ portfolioData[1].FillTime < DateOf(2024, 1, 19)
  /\ portfolioData[2].FillTime > DateOf(2024, 1, 19)
  /\ Len(SyntheticTrades(GainsGroups[1].trades)) = 1

\* a record as far as the comparison of two reports goes
RECURSIVE Slices(_, _)
Slices(records, k) ==
  IF k = 0 THEN <<>>
  ELSE Append(Slices(records, k - 1),
              [symbol |-> records[k].symbol, sellDate |-> records[k].sellDate,
               qty |-> records[k].qty, costBasis |-> records[k].costBasis,
               proceeds |-> records[k].proceeds, capitalGain |-> records[k].capitalGain])

InYear(r, financialYear) ==
  /\ r.sellDate >= DateOf(financialYear, 7, 1)
  /\ r.sellDate <= EndOfDay(financialYear + 1, 6, 30)

\* the report without a year, of the file that answered
Unwindowed ==
  IF MainGainsAnswered
  THEN calculateCapitalGains(portfolioData, NoYear, currencyRates, now)
  ELSE calculateCapitalGains_server(portfolioData, NoYear, currencyRates, now)

FilteredTo(records, financialYear) ==
  SelectSeq(Slices(records, Len(records)), LAMBDA r : InYear(r, financialYear))

\* C4: the report of a financial year Y is the report without a year cut down to
\* the records sold in [Y-07-01, (Y+1)-06-30T23:59:59.999], each with the same
\* quantity, cost basis, proceeds and capital gain
C4_WindowIsFilter ==
  GainsAnswered /\ response.request[2] # NoYear =>
    Slices(response.value, Len(response.value)) = FilteredTo(Unwindowed, response.request[2])

\* C4: a lot was bought and part of it sold before the year, the rest sold inside
\* it, and the year was reported
C4_SoldBeforeAndInside ==
  /\ GainsAnswered /\ response.request[2] = 2023
  /\ Len(portfolioData) = 3
  /\ portfolioData[1].Side = "Buy" /\ portfolioData[1].FilledQty = 2
  /\ portfolioData[1].FillTime = DateOf(2023, 6, 30)
  /\ portfolioData[2].Side = "Sell" /\ portfolioData[2].FilledQty = 1
  /\ portfolioData[2].FillTime = DateOf(2023, 6, 30)
  /\ portfolioData[3].Side = "Sell" /\ portfolioData[3].FilledQty = 1
  /\ portfolioData[3].FillTime = DateOf(2024, 1, 8)
  /\ Len(response.value) = 1

\* the replay of the file that answered, up to trade k of a symbol's sorted trades
AnsweredReplay(symbol, trades, k) ==
  IF MainGainsAnswered
  THEN CGReplay(trades, k, CGOptionsInfo(symbol, trades, now), response.request[2], now)
  ELSE CGServerReplay(trades, k, CGOptionsInfo(symbol, trades, now), response.request[2],
                      now)

RECURSIVE SlicesQty(_, _)
SlicesQty(records, k) == IF k = 0 THEN 0 ELSE SlicesQty(records, k - 1) + records[k].qty

\* the sell the replay handled last: its records' quantities and what became of
\* the quantity no lot covered
SellAccounted(replay, sell) ==
  sell.inWindow =>
    /\ SlicesQty(sell.slices, Len(sell.slices)) = sell.qty - sell.remainingQty
    /\ sell.remainingQty > 0 =>
         \E j \in 1..Len(replay.holdings) : replay.holdings[j].qty = -sell.remainingQty

LastSellAccounted(replay) == SellAccounted(replay, replay.dropped[Len(replay.dropped)])

\* C8: the quantities of the records an in-window sell emits sum to the sell's
\* quantity less the remainder no open lot covered, and that remainder is
\* kept in the replay's queue as a new short lot
C8_SlicesAndShortLot ==
  GainsAnswered =>
    \A i \in 1..Len(GainsGroups) :
      \A k \in 1..Len(GainsGroups[i].trades) :
        SortByDate(GainsGroups[i].trades)[k].side = "Sell" =>
          LastSellAccounted(AnsweredReplay(GainsGroups[i].symbol,
                                           SortByDate(GainsGroups[i].trades), k))

\* C8: a sell inside the window exceeded the open lots and was reported
C8_SellExceedsLots ==
  /\ GainsAnswered
  /\ Len(portfolioData) = 2
  /\ portfolioData[1].Side = "Buy" /\ portfolioData[1].FilledQty = 1
  /\ portfolioData[2].Side = "Sell" /\ portfolioData[2].FilledQty = 2
  /\ portfolioData[1].FillTime < portfolioData[2].FillTime
  /\ portfolioData[2].FillTime = DateOf(2024, 1, 8)
  /\ Len(response.value) = 1

\* ------------------------------------------- capital gains: the rates they use
\* one symbol a file, a US share or with one trade an Australian share; rate
\* sources that differ in the rate of a trade date or of the day of the report
TradeRateClock == DateOf(2024, 3, 1)
TradeRateDates == {DateOf(2023, 6, 30), DateOf(2024, 1, 8)}

TradeRateRows(symbol, market) ==
  {Row(symbol, side, qty, 10 + 2 * qty, time, 1, market) :
     side \in {"Buy", "Sell"}, qty \in 1..MaxQty, time \in TradeRateDates}

TradeRateFiles ==
  SeqsUpTo(TradeRateRows("AAPL", "US"), MaxTrades)
    \cup SeqsUpTo(TradeRateRows("BHP", "AU"), MaxTrades - 2)

TradeRateFeeds ==
  {<<RateRow(2023, 6, 30, <<7, 5>>), RateRow(2024, 1, 8, atTrade),
     RateRow(2024, 3, 1, atReport)>> :
     atTrade \in {<<8, 5>>, <<17, 10>>}, atReport \in {<<2, 1>>, <<9, 4>>}}

InitTradeRates == LoadedRates(TradeRateFiles, TradeRateFeeds, {TradeRateClock})

NextTradeRates ==
  \/ LoadPortfolioData
  \/ \E financialYear \in GainsYears : GetCapitalGains(financialYear)

SpecTradeRates == InitTradeRates /\ [][NextTradeRates]_vars

\* the table a rate source loads to
TableOf(feed) == MapSetAll(<<>>, feed)

\* the table gives every loaded trade's date the rate the current table gives it
SameTradeDateRates(table) ==
  \A i \in 1..Len(portfolioData) :
    getUSDToAUDRate(table, parseCSVDate(portfolioData[i])) =
      getUSDToAUDRate(currencyRates, parseCSVDate(portfolioData[i]))

\* AUD for one unit of the row's currency at the row's date
RateAtTrade(row) ==
  IF row.market = "AU" THEN R(1) ELSE getUSDToAUDRate(currencyRates, parseCSVDate(row))

\* the share of qty units in the row's amount less (sign -1) or plus (sign 1) its
\* commission and fees, in AUD at the rate of the row's date
ShareInAUD(row, qty, sign) ==
  RMul(RDiv(R(qty), R(parseFilledAvg(row).qty)),
       RMul(RAdd(RMul(R(parseFilledAvg(row).qty), parseFilledAvg(row).price),
                 RMul(R(sign), RAdd(row.Commission, row.Total))),
            RateAtTrade(row)))

ProceedsAtSellDate(r) ==
  \E i \in 1..Len(portfolioData) :
    /\ portfolioData[i].Side = "Sell"
    /\ parseCSVDate(portfolioData[i]) = r.sellDate
    /\ r.proceeds = ShareInAUD(portfolioData[i], r.qty, -1)

CostAtBuyDate(r) ==
  \E i \in 1..Len(portfolioData) :
    /\ portfolioData[i].Side = "Buy"
    /\ parseCSVDate(portfolioData[i]) = r.buyDate
    /\ r.costBasis = ShareInAUD(portfolioData[i], r.qty, 1)

\* C9: a record's proceeds are the sell's amount less commission and fees at the
\* rate of the sell's date and, in the report without a year, its cost basis is the
\* buy's amount plus commission and fees at the rate of the buy's date; a rate table
\* that gives every trade date the same rate, whatever it gives the day of the
\* report, gives the same report
C9_TradeDateRates ==
  MainGainsAnswered =>
    /\ \A k \in 1..Len(response.value) :
         /\ ProceedsAtSellDate(response.value[k])
         /\ response.request[2] = NoYear => CostAtBuyDate(response.value[k])
    /\ \A feed \in TradeRateFeeds :
         SameTradeDateRates(TableOf(feed)) =>
           calculateCapitalGains(portfolioData, response.request[2], TableOf(feed), now)
             = response.value

\* C9: a US share bought and sold was reported, and another rate source differs
\* only in the rate of the day of the report
C9_ReportedWithOtherRateToday ==
  /\ MainGainsAnswered
  /\ Len(response.value) > 0
  /\ response.value[1].market = "US"
  /\ response.value[1].buyDate < response.value[1].sellDate
  /\ \E feed \in TradeRateFeeds :
       /\ SameTradeDateRates(TableOf(feed))
       /\ getUSDToAUDRate(TableOf(feed), now) # getUSDToAUDRate(currencyRates, now)

\* ------------------------------------------- portfolio summary: the rate it uses
\* one symbol a file, a US share or an Australian share
SummaryClock == DateOf(2024, 3, 1)
SummaryDates == {DateOf(2024, 1, 8), DateOf(2024, 1, 9)}

SummaryRows(symbol, market) ==
  {Row(symbol, side, qty, 10 + 2 * qty, time, 1, market) :
     side \in {"Buy", "Sell"}, qty \in 1..MaxQty, time \in SummaryDates}

SummaryFiles ==
  SeqsUpTo(SummaryRows("AAPL", "US"), MaxTrades - 1)
    \cup SeqsUpTo(SummaryRows("BHP", "AU"), MaxTrades - 1)

SummaryFeeds ==
  {<<RateRow(2024, 1, 8, atTrade), RateRow(2024, 3, 1, atReport)>> :
     atTrade \in {<<8, 5>>, <<17, 10>>}, atReport \in {<<2, 1>>, <<9, 4>>}}

InitSummary == LoadedRates(SummaryFiles, SummaryFeeds, {SummaryClock})

NextSummary ==
  \/ LoadPortfolioData
  \/ \E currency \in {"AUD", "USD"} : GetPortfolioSummary(currency)

SpecSummary == InitSummary /\ [][NextSummary]_vars

\* a total in its original currency shown in displayCurrency at the rate of now
ShownAtNow(total, originalCurrency, displayCurrency) ==
  IF originalCurrency = displayCurrency THEN total
  ELSE IF originalCurrency = "USD" THEN RMul(total, getUSDToAUDRate(currencyRates, now))
  ELSE RDiv(total, getUSDToAUDRate(currencyRates, now))

RECURSIVE SideAmount(_, _, _)
SideAmount(trades, side, k) ==
  IF k = 0 THEN Zero
  ELSE RAdd(SideAmount(trades, side, k - 1),
            IF trades[k].side = side THEN trades[k].amount ELSE Zero)

StatAtNow(stat, trades, sells, originalCurrency, displayCurrency) ==
  /\ stat.buyVolume =
       ShownAtNow(SideAmount(trades, "Buy", Len(trades)), originalCurrency, displayCurrency)
  /\ stat.sellVolume =
       ShownAtNow(SideAmount(trades, "Sell", Len(trades)), originalCurrency, displayCurrency)
  /\ stat.totalPnL =
       ShownAtNow(SumRealized(sells, Len(sells)), originalCurrency, displayCurrency)

GroupAtNow(symbol, trades) ==
  StatAtNow(StatOf(symbol), trades, FIFOSorted(trades).sells,
            trades[1].originalCurrency, response.request[2])

\* C10: the summary shows a symbol's realized P&L, buy volume and sell volume as
\* the totals in the trades' own currency converted at the rate of now: times
\* the rate for USD shown in AUD, divided by it for AUD shown in USD, as they
\* are when the currencies match; a rate table that gives now the same rate,
\* whatever it gives the trade dates, gives the same summary
C10_SummaryAtCurrentRate ==
  SummaryAnswered =>
    /\ \A i \in 1..Len(ReplayedGroups) :
         GroupAtNow(ReplayedGroups[i].symbol, SortByDate(ReplayedGroups[i].trades))
    /\ \A feed \in SummaryFeeds :
         getUSDToAUDRate(TableOf(feed), now) = getUSDToAUDRate(currencyRates, now) =>
           calculatePortfolioSummary(portfolioData, response.request[2], TableOf(feed), now)
             = response.value

\* C10: a share bought and sold at a gain or loss was summarised in the other
\* currency, and another rate source differs only in the rate of the trade date
C10_SummarisedWithOtherTradeRate ==
  /\ SummaryAnswered
  /\ response.request[2] # ReplayedGroups[1].trades[1].originalCurrency
  /\ response.value.symbolStats[1].totalPnL # Zero
  /\ RLess(Zero, response.value.symbolStats[1].buyVolume)
  /\ \E feed \in SummaryFeeds :
       /\ getUSDToAUDRate(TableOf(feed), now) = getUSDToAUDRate(currencyRates, now)
       /\ TableOf(feed) # currencyRates

\* ------------------------------------------------ the reports, asked repeatedly
\* an option expiring between the two clocks, bought on 2024-01-08 and sold on
\* 2024-01-10; the rates load in the background while the window is open
IdemClocks == {DateOf(2024, 1, 15), DateOf(2024, 3, 1)}

IdemRows ==
  {Row("SPY240119C480000", "Buy", qty, 10 + 2 * qty, DateOf(2024, 1, 8), 1, "US") :
     qty \in 1..MaxQty}
    \cup {Row("SPY240119C480000", "Sell", qty, 10 + 2 * qty, DateOf(2024, 1, 10), 1, "US") :
             qty \in 1..MaxQty}

InitIdem ==
  /\ file \in SeqsUpTo(IdemRows, MaxTrades - 1)
  /\ rateFeed = <<RateRow(2024, 1, 8, <<8, 5>>), RateRow(2024, 1, 10, <<17, 10>>)>>
  /\ currencyRates = <<>>
  /\ portfolioData = <<>>
  /\ tradesLoaded = FALSE
  /\ boot = "rates"
  /\ now = DateOf(2024, 1, 15)
  /\ response = NoResponse
  /\ lastCG = NoResponse

NextIdem ==
  \/ LoadCurrencyRates
  \/ LoadPortfolioData
  \/ Tick(IdemClocks)
  \/ \E currency \in {"AUD", "USD"} : GetPortfolioSummary(currency)
  \/ \E financialYear \in GainsYears : GetCapitalGains(financialYear)
  \/ \E timeframe \in {"all", "3m"}, currency \in {"AUD", "USD"} :
       GetPerformanceData(timeframe, "cumulative", currency)

SpecIdem == InitIdem /\ [][NextIdem]_vars

\* a report is answered; the loaded trades, the rate table and the clock stay
ReportsOnlyRead ==
  response' # response => UNCHANGED <<portfolioData, currencyRates, now>>

\* get-capital-gains is answered again for the same year, nothing loaded and no
\* time passed since its last answer: the answer is the same
SameGainsAgain ==
  /\ response'.request[1] = "get-capital-gains"
  /\ lastCG.request = response'.request
  => response'.value = lastCG.value

RateDays == {1, 3, 10, 12}
RateOfDay(d) == Norm(150 + d, 100)

RECURSIVE RateFeedOf(_, _)
RateFeedOf(days, d) ==
  IF d = 0 THEN <<>>
  ELSE IF d \in days THEN Append(RateFeedOf(days, d - 1), RateRow(2024, 1, d, RateOfDay(d)))
  ELSE RateFeedOf(days, d - 1)

RateFeeds == {RateFeedOf(days, 31) : days \in SUBSET RateDays}
RateInstants == {DateOf(2024, 1, 1) + k : k \in 0..(20 * TicksPerDay - 1)}

InitRate ==
  /\ file = <<>>
  /\ rateFeed \in RateFeeds
  /\ currencyRates = <<>>
  /\ portfolioData = <<>>
  /\ tradesLoaded = FALSE
  /\ boot = "rates"
  /\ now = DateOf(2024, 3, 1)
  /\ response = NoResponse
  /\ lastCG = NoResponse

NextRate ==
  \/ LoadCurrencyRates
  \/ \E date \in RateInstants : GetUSDToAUDRate(date)
  \/ \E date \in RateInstants : ServerGetUSDToAUDRate(date)

SpecRate == InitRate /\ [][NextRate]_vars

\* the table entries whose calendar day is at most 7 days from the day of date
Within7Days(rates, date) ==
  {i \in 1..Len(rates) : Abs(rates[i].key - DateKey(date)) <= 7}

\* i is nearer to the day of date than j, the earlier day first at equal distance
\* (the probe order -1, +1, -2, +2, ...)
NearerDay(rates, date, i, j) ==
  \/ Abs(rates[i].key - DateKey(date)) < Abs(rates[j].key - DateKey(date))
  \/ /\ Abs(rates[i].key - DateKey(date)) = Abs(rates[j].key - DateKey(date))
     /\ rates[i].key <= rates[j].key

\* the exact day's entry, else the entry of the nearest day within 7 days, else 1.5
NearestCalendarRate(rates, date) ==
  IF Within7Days(rates, date) = {} THEN FallbackRate
  ELSE rates[CHOOSE i \in Within7Days(rates, date) :
               \A j \in Within7Days(rates, date) : NearerDay(rates, date, i, j)].rate

RateAnswered ==
  response.request[1] \in {"getUSDToAUDRate", "server.getUSDToAUDRate"}

\* main.js: getUSDToAUDRate returns the entry of the nearest calendar day within
\* 7 days, the earlier day at equal distance, else 1.5
MainRateIsNearestCalendarRate ==
  response.request[1] = "getUSDToAUDRate" =>
    response.value = NearestCalendarRate(currencyRates, response.request[2])

\* C5: getUSDToAUDRate, in main.js and in server.js, returns the entry of the exact
\* calendar day when there is one, else the entry of the table day at the smallest
\* calendar-day distance among those at most 7 days away, else 1.5
C5_NearestCalendarDate ==
  RateAnswered =>
    response.value = NearestCalendarRate(currencyRates, response.request[2])

\* C5: with a table of 2024-01-01 and 2024-01-10 only, a lookup in the course of
\* 2024-01-04 was answered
C5_ExampleLookedUp ==
  /\ RateAnswered
  /\ currencyRates = <<RateRow(2024, 1, 1, RateOfDay(1)), RateRow(2024, 1, 10, RateOfDay(10))>>
  /\ DateKey(response.request[2]) = DaysFromCivil(2024, 1, 4)
  /\ response.value = RateOfDay(1)

\* ------------------------------------------------ records whose fields are text
\* 'Filled@Avg Price' is a string of characters and 'Fill Time' a text that
\* new Date either parses to an instant or does not
TypeError == "TypeError"
SentinelDate == DateOf(1900, 1, 1)

\* String.prototype.replace(c, ""): the first occurrence is removed
RECURSIVE RemoveFirst(_, _)
RemoveFirst(s, c) ==
  IF s = <<>> THEN <<>>
  ELSE IF Head(s) = c THEN Tail(s)
  ELSE <<Head(s)>> \o RemoveFirst(Tail(s), c)

\* parseFloat(s) || 0 for a text of digits, commas and letters: the value of the
\* leading digits, 0 when there are none
parseFloatOrZero(s) == DigitsValue(SubSeq(s, 1, PrefixLen(s, Digits)))

\* String.prototype.split('@'): the pieces between the separators
RECURSIVE Split(_, _, _)
Split(s, piece, pieces) ==
  IF s = <<>> THEN Append(pieces, piece)
  ELSE IF Head(s) = "@" THEN Split(Tail(s), <<>>, Append(pieces, piece))
  ELSE Split(Tail(s), Append(piece, Head(s)), pieces)

\* parseFilledAvg(column, symbol) of a text column: price.replace raises a TypeError
\* when split gave one piece only
parseFilledAvgText(column, symbol) ==
  LET pieces == Split(IF column = <<>> THEN <<"0", "@", "0">> ELSE column, <<>>, <<>>)
  IN  IF Len(pieces) < 2 THEN [raised |-> TRUE, qty |-> 0, price |-> Zero]
      ELSE [raised |-> FALSE,
            qty |-> parseFloatOrZero(RemoveFirst(pieces[1], ",")),
            price |-> R(parseFloatOrZero(RemoveFirst(pieces[2], ",")))]

\* a 'Fill Time' text: empty, one new Date parses (to the instant at) or one it does not
TimeText(at) == [empty |-> FALSE, parses |-> TRUE, at |-> at]
EmptyText == [empty |-> TRUE, parses |-> FALSE, at |-> 0]
Unparseable == [empty |-> FALSE, parses |-> FALSE, at |-> 0]

\* parseCSVDate of main.js on a text without a time zone suffix
parseCSVDateText(text) ==
  IF text.empty THEN [valid |-> TRUE, time |-> SentinelDate]
  ELSE IF ~text.parses THEN [valid |-> TRUE, time |-> SentinelDate]
  ELSE [valid |-> TRUE, time |-> text.at]

\* parseCSVDate of server.js: what new Date gave is returned as it is
parseCSVDateText_server(text) ==
  IF text.empty THEN [valid |-> TRUE, time |-> SentinelDate]
  ELSE IF ~text.parses THEN [valid |-> FALSE, time |-> 0]
  ELSE [valid |-> TRUE, time |-> text.at]

TextRow(symbol, side, column, text, market) ==
  [Symbol |-> symbol, Side |-> side, Status |-> "Filled",
   Filled |-> column, Time |-> text,
   Commission |-> R(1), Total |-> Zero, Name |-> symbol, market |-> market]

\* the record the engines see once they have parsed the two fields of a text record
ParsedRow(row) ==
  [Symbol |-> row.Symbol, Side |-> row.Side, Status |-> row.Status,
   FilledQty |-> parseFilledAvgText(row.Filled, row.Symbol).qty,
   AvgPrice |-> parseFilledAvgText(row.Filled, row.Symbol).price,
   FillTime |-> parseCSVDateText(row.Time).time,
   Commission |-> row.Commission, Total |-> row.Total, Name |-> row.Name,
   market |-> row.market]

RECURSIVE ParsedRows(_)
ParsedRows(rows) ==
  IF rows = <<>> THEN <<>> ELSE <<ParsedRow(Head(rows))>> \o ParsedRows(Tail(rows))

\* the grouping loops call parseFilledAvg on every executed record: one that raises
\* ends the handler
Raises(rows) ==
  \E i \in 1..Len(rows) : parseFilledAvgText(rows[i].Filled, rows[i].Symbol).raised

Raised(request) == [request |-> request, raised |-> TRUE, value |-> TypeError]
Returned(request, value) == [request |-> request, raised |-> FALSE, value |-> value]

\* ipcMain.handle('get-portfolio-summary') on text records
GetPortfolioSummaryOfText(currency) ==
  /\ tradesLoaded
  /\ response' =
       IF Raises(portfolioData) THEN Raised(<<"get-portfolio-summary", currency>>)
       ELSE Returned(<<"get-portfolio-summary", currency>>,
                     calculatePortfolioSummary(ParsedRows(portfolioData), currency,
                                               currencyRates, now))
  /\ UNCHANGED <<currencyRates, portfolioData, tradesLoaded, file, rateFeed, boot, now,
                 lastCG>>

\* ipcMain.handle('get-capital-gains') on text records
GetCapitalGainsOfText(financialYear) ==
  /\ tradesLoaded
  /\ response' =
       IF Raises(portfolioData) THEN Raised(<<"get-capital-gains", financialYear>>)
       ELSE Returned(<<"get-capital-gains", financialYear>>,
                     calculateCapitalGains(ParsedRows(portfolioData), financialYear,
                                           currencyRates, now))
  /\ UNCHANGED <<currencyRates, portfolioData, tradesLoaded, file, rateFeed, boot, now,
                 lastCG>>

\* parseCSVDate of server.js called on the 'Fill Time' of a loaded record
ServerParseCSVDate(i) ==
  /\ tradesLoaded
  /\ i \in 1..Len(portfolioData)
  /\ response' = Returned(<<"server.parseCSVDate", i>>,
                          parseCSVDateText_server(portfolioData[i].Time))
  /\ UNCHANGED <<currencyRates, portfolioData, tradesLoaded, file, rateFeed, boot, now,
                 lastCG>>

\* two symbols a file, a US share and an Australian share, with columns that are
\* well formed, have a zero or non-numeric part, or have no separator
TextDay == DateOf(2024, 1, 8)
TextClock == DateOf(2024, 3, 1)
TextColumns ==
  {<<"1", "@", "1", "2">>, <<"2", "@", "1", "0">>, <<"0", "@", "1", "2">>,
   <<"1", "@", "x">>, <<"x", "@", "1", "2">>, <<"1", "2">>, <<>>}
TextTimes == {TimeText(TextDay), TimeText(TextDay + 1), Unparseable, EmptyText}
TextLen == 2

TextRows ==
  {TextRow(symbol, side, column, text, IF symbol = "BHP" THEN "AU" ELSE "US") :
     symbol \in {"AAPL", "BHP"}, side \in {"Buy", "Sell"},
     column \in TextColumns, text \in TextTimes}

TextFiles == SeqsUpTo(TextRows, TextLen)
TextFeeds == {<<RateRow(2024, 1, 8, <<3, 2>>)>>}

InitText == LoadedRates(TextFiles, TextFeeds, {TextClock})

NextText ==
  \/ LoadPortfolioData
  \/ GetPortfolioSummaryOfText("AUD")
  \/ GetCapitalGainsOfText(NoYear)
  \/ \E i \in 1..TextLen : ServerParseCSVDate(i)

SpecText == InitText /\ [][NextText]_vars

TextAnswered == response.request[1] \in {"get-portfolio-summary", "get-capital-gains"}

\* a record both of whose fields parse to what they say, with a quantity and a price
WellFormed(row) ==
  /\ ~parseFilledAvgText(row.Filled, row.Symbol).raised
  /\ parseFilledAvgText(row.Filled, row.Symbol).qty > 0
  /\ RLess(Zero, parseFilledAvgText(row.Filled, row.Symbol).price)
  /\ row.Time.parses

\* the symbols all of whose records are well formed
CleanSymbols ==
  {portfolioData[i].Symbol : i \in 1..Len(portfolioData)} \
    {portfolioData[i].Symbol : i \in {j \in 1..Len(portfolioData) : ~WellFormed(portfolioData[j])}}

RowsOf(symbol) == SelectSeq(ParsedRows(portfolioData), LAMBDA r : r.Symbol = symbol)

\* the answer says of a symbol what it says when the symbol's records are the whole file
SymbolUnaffected(symbol) ==
  IF response.request[1] = "get-portfolio-summary"
  THEN SelectSeq(response.value.symbolStats, LAMBDA st : st.symbol = symbol)
         = calculatePortfolioSummary(RowsOf(symbol), response.request[2],
                                     currencyRates, now).symbolStats
  ELSE SelectSeq(response.value, LAMBDA g : g.symbol = symbol)
         = calculateCapitalGains(RowsOf(symbol), response.request[2], currencyRates, now)

\* when no record lacks the separator the report is returned, and the malformed
\* records leave the other symbols' results as they are
OtherSymbolsUnaffected ==
  (TextAnswered /\ ~Raises(portfolioData)) =>
    /\ ~response.raised
    /\ \A symbol \in CleanSymbols : SymbolUnaffected(symbol)

\* C11: whatever the text of the records, get-portfolio-summary and
\* get-capital-gains return a result and do not raise, the results of the symbols
\* whose records are well formed are what they are without the malformed records,
\* and a 'Fill Time' that does not parse becomes the sentinel date 1900-01-01
C11_NeverAborts ==
  /\ TextAnswered =>
       /\ ~response.raised
       /\ \A symbol \in CleanSymbols : SymbolUnaffected(symbol)
  /\ response.request[1] = "server.parseCSVDate" =>
       (~portfolioData[response.request[2]].Time.parses =>
          response.value = [valid |-> TRUE, time |-> SentinelDate])

\* C11: a report was asked for a file in which one symbol's record has no '@' in
\* 'Filled@Avg Price' and the other symbol's record is well formed
C11_RecordWithoutSeparator ==
  /\ TextAnswered
  /\ Raises(portfolioData)
  /\ CleanSymbols # {}

\* ------------------------------------------- the rate table: loaded before use
\* under SpecIdem every loaded file holds a US trade, so every report that answers
\* has looked a rate up (main.js 915 and 1460), and the table is written by
\* LoadCurrencyRates alone
RateLookedUp == response # NoResponse
LooksRateUp == response' # response
WritesRateTable == currencyRates' # currencyRates

\* C12: no rate is looked up before the load of the rate table has completed, and
\* the rate table is not written once a rate has been looked up
C12_RatesLoadedBeforeUse ==
  [][/\ LooksRateUp => boot # "rates"
     /\ WritesRateTable => ~RateLookedUp]_vars

\* C12: the user opened a trades file while the rate table was still loading
C12_FileOpenedWhileRatesLoad ==
  /\ boot = "rates"
  /\ tradesLoaded
  /\ Len(portfolioData) > 0
  /\ currencyRates = <<>>

\* ------------------------------------------------ the currency converter alone
\* convertCurrency of server.js: the same text over the lookup of server.js
convertCurrency_server(rates, amount, fromMarket, toCurrency, tradeDate) ==
  LET fromCurrency == IF fromMarket = "AU" THEN "AUD" ELSE "USD"
      targetCurrency == IF toCurrency = "AU" THEN "AUD"
                        ELSE IF toCurrency = "US" THEN "USD" ELSE toCurrency
      usdToAudRate == getUSDToAUDRate_server(rates, tradeDate)
  IN  IF fromCurrency = targetCurrency THEN amount
      ELSE IF fromCurrency = "USD" /\ targetCurrency = "AUD" THEN RMul(amount, usdToAudRate)
      ELSE IF fromCurrency = "AUD" /\ targetCurrency = "USD" THEN RDiv(amount, usdToAudRate)
      ELSE amount

\* a call of convertCurrency of main.js
ConvertCurrency(amount, fromMarket, toCurrency, tradeDate) ==
  /\ boot # "rates"
  /\ response' = [request |-> <<"convertCurrency", amount, fromMarket, toCurrency,
                                tradeDate>>,
                  value |-> convertCurrency(currencyRates, amount, fromMarket,
                                            toCurrency, tradeDate)]
  /\ UNCHANGED <<currencyRates, portfolioData, tradesLoaded, file, rateFeed, boot, now,
                 lastCG>>

\* a call of convertCurrency of server.js
ServerConvertCurrency(amount, fromMarket, toCurrency, tradeDate) ==
  /\ boot # "rates"
  /\ response' = [request |-> <<"server.convertCurrency", amount, fromMarket,
                                toCurrency, tradeDate>>,
                  value |-> convertCurrency_server(currencyRates, amount, fromMarket,
                                                   toCurrency, tradeDate)]
  /\ UNCHANGED <<currencyRates, portfolioData, tradesLoaded, file, rateFeed, boot, now,
                 lastCG>>

ConvertAmounts == {Zero, R(10), <<-5, 2>>}
ConvertMarkets == {"US", "AU"}
ConvertTargets == {"US", "AU", "USD", "AUD", "EUR", ""}
ConvertDates == {DateOf(2024, 1, 8), DateOf(2024, 1, 10) + 1, DateOf(2024, 3, 1)}
ConvertFeeds ==
  {<<RateRow(2024, 1, 8, <<8, 5>>)>>,
   <<RateRow(2024, 1, 8, <<8, 5>>), RateRow(2024, 1, 11, <<17, 10>>)>>}

InitConvert == LoadedRates({<<>>}, ConvertFeeds, {DateOf(2024, 3, 1)})

NextConvert ==
  \E amount \in ConvertAmounts, fromMarket \in ConvertMarkets,
     toCurrency \in ConvertTargets, tradeDate \in ConvertDates :
    \/ ConvertCurrency(amount, fromMarket, toCurrency, tradeDate)
    \/ ServerConvertCurrency(amount, fromMarket, toCurrency, tradeDate)

SpecConvert == InitConvert /\ [][NextConvert]_vars

Converted == response.request[1] \in {"convertCurrency", "server.convertCurrency"}

\* the currency of a market code or currency code, "" for any other text
CurrencyOf(code) ==
  IF code \in {"US", "USD"} THEN "USD"
  ELSE IF code \in {"AU", "AUD"} THEN "AUD"
  ELSE ""

\* rate(date) of the file the call was made in
RateOfCall ==
  IF response.request[1] = "convertCurrency"
  THEN getUSDToAUDRate(currencyRates, response.request[5])
  ELSE getUSDToAUDRate_server(currencyRates, response.request[5])

\* C13: the amount comes back unchanged when the source market's currency is the
\* target's or the target is none of US, AU, USD, AUD; it comes back times
\* rate(date) from USD to AUD and divided by rate(date) from AUD to USD
C13_ConvertByDirection ==
  Converted =>
    LET amount == response.request[2]
        from == CurrencyOf(response.request[3])
        to == CurrencyOf(response.request[4])
    IN  response.value =
          IF to = "" \/ from = to THEN amount
          ELSE IF from = "USD" THEN RMul(amount, RateOfCall)
          ELSE RDiv(amount, RateOfCall)

\* C13: an amount other than zero was converted from an Australian market to US
\* dollars at a rate other than 1
C13_ConvertedToUSD ==
  /\ Converted
  /\ response.request[2] # Zero
  /\ response.request[3] = "AU"
  /\ response.request[4] \in {"US", "USD"}
  /\ RateOfCall # R(1)
  /\ response.value # response.request[2]

\* --------------------------------------------------- the symbol decoder alone
\* a call of parseOptionsSymbol and of getMultiplier on a symbol
ParseOptionsSymbol(symbol) ==
  /\ response' = [request |-> <<"parseOptionsSymbol", symbol>>,
                  value |-> parseOptionsSymbol(symbol, now),
                  multiplier |-> getMultiplier(symbol)]
  /\ UNCHANGED <<currencyRates, portfolioData, tradesLoaded, file, rateFeed, boot, now,
                 lastCG>>

\* a call of parseFilledAvg on a record's column
ParseFilledAvg(symbol, qty, price) ==
  /\ response' = [request |-> <<"parseFilledAvg", symbol, qty, price>>,
                  value |-> parseFilledAvg([Symbol |-> symbol, FilledQty |-> qty,
                                            AvgPrice |-> price])]
  /\ UNCHANGED <<currencyRates, portfolioData, tradesLoaded, file, rateFeed, boot, now,
                 lastCG>>

DecodeSymbols ==
  {"AAPL", "BHP", "SOFI251121C26000", "SPY240119C480000", "A000101P5",
   "SPY24011C480", "SPY2401190C480", "spy240119C480", "SPY240119X480", "SPY240119C",
   "240119C480", "SPY240119C48A", "SPY 240119C480"}
DecodePrices == {<<48, 5>>, R(12), Zero}
DecodeClocks == {DateOf(2024, 1, 1), DateOf(2024, 3, 1), DateOf(2026, 1, 1)}

InitDecode == LoadedRates({<<>>}, {<<RateRow(2024, 1, 8, <<3, 2>>)>>}, DecodeClocks)

NextDecode ==
  \/ Tick(DecodeClocks)
  \/ \E symbol \in DecodeSymbols : ParseOptionsSymbol(symbol)
  \/ \E symbol \in DecodeSymbols, qty \in 1..MaxQty, price \in DecodePrices :
       ParseFilledAvg(symbol, qty, price)

SpecDecode == InitDecode /\ [][NextDecode]_vars

\* the whole text is uppercase letters, six digits, C or P, digits; u letters lead
OptionShape(s, u) ==
  /\ u >= 1
  /\ Len(s) >= u + 8
  /\ \A i \in 1..u : s[i] \in UpperCase
  /\ \A i \in (u + 1)..(u + 6) : s[i] \in Digits
  /\ s[u + 7] \in {"C", "P"}
  /\ \A i \in (u + 8)..Len(s) : s[i] \in Digits

IsOptionText(s) == \E u \in 1..Len(s) : OptionShape(s, u)

\* the number a text of digits writes
RECURSIVE NumberOf(_)
NumberOf(s) == IF s = <<>> THEN 0 ELSE DigitVal(Head(s)) * 10 ^ (Len(s) - 1) + NumberOf(Tail(s))

\* the descriptor has every field and says what the text says
Describes(info, s) ==
  \E u \in 1..Len(s) :
    /\ OptionShape(s, u)
    /\ DOMAIN info = {"underlying", "expiryDate", "optionType", "strikePrice", "isExpired"}
    /\ info.underlying = SubSeq(s, 1, u)
    /\ CivilFromDays(DateKey(info.expiryDate)) =
         [year |-> 2000 + NumberOf(SubSeq(s, u + 1, u + 2)),
          month |-> NumberOf(SubSeq(s, u + 3, u + 4)),
          day |-> NumberOf(SubSeq(s, u + 5, u + 6))]
    /\ info.optionType = (IF s[u + 7] = "C" THEN "Call" ELSE "Put")
    /\ RMul(info.strikePrice, R(1000)) = R(NumberOf(SubSeq(s, u + 8, Len(s))))

\* C14: the decoder returns null or a descriptor with every field, the descriptor
\* exactly for a text of uppercase letters, six digits, C or P and digits, with the
\* year 2000+YY and the strike the trailing digits over 1000; the multiplier is 100
\* exactly then and 1 otherwise, and the parsed price is the raw price times it;
\* SOFI251121C26000 is SOFI, 2025-11-21, Call, 26 and a raw 9.60 becomes 960
C14_DecodeAllOrNothing ==
  /\ response.request[1] = "parseOptionsSymbol" =>
       LET s == Chars(response.request[2])
       IN  /\ IF IsOptionText(s) THEN Describes(response.value, s)
              ELSE response.value = Null
           /\ response.multiplier = (IF response.value = Null THEN 1 ELSE 100)
           /\ response.request[2] = "SOFI251121C26000" =>
                /\ response.value.underlying = <<"S", "O", "F", "I">>
                /\ response.value.expiryDate = DateOf(2025, 11, 21)
                /\ response.value.optionType = "Call"
                /\ response.value.strikePrice = R(26)
  /\ response.request[1] = "parseFilledAvg" =>
       /\ response.value.qty = response.request[3]
       /\ response.value.price =
            RMul(response.request[4],
                 R(IF IsOptionText(Chars(response.request[2])) THEN 100 ELSE 1))
       /\ (response.request[2] = "SOFI251121C26000" /\ response.request[4] = <<48, 5>>) =>
            response.value.price = R(960)

\* C14: the example's option was decoded
C14_ExampleDecoded ==
  /\ response.request[1] = "parseOptionsSymbol"
  /\ response.request[2] = "SOFI251121C26000"
  /\ response.value # Null
  /\ response.multiplier = 100

\* ------------------------------------------- portfolio summary: the positions
\* up to MaxTrades trades over a US share, an Australian share, an option expired
\* at the clock and an option not yet expired
PositionClock == DateOf(2024, 3, 1)
PositionSymbols == {"AAPL", "BHP", "SPY240119C480000", "SOFI251121C26000"}

PositionRows ==
  {Row(symbol, side, qty, 10 + 2 * qty, DateOf(2024, 1, 8), 1,
       IF symbol = "BHP" THEN "AU" ELSE "US") :
     symbol \in PositionSymbols, side \in {"Buy", "Sell"}, qty \in 1..MaxQty}

PositionFiles == SeqsUpTo(PositionRows, MaxTrades)

InitPositions ==
  LoadedRates(PositionFiles, {<<RateRow(2024, 1, 8, <<3, 2>>)>>}, {PositionClock})

NextPositions ==
  \/ LoadPortfolioData
  \/ \E currency \in {"AUD", "USD"} : GetPortfolioSummary(currency)

SpecPositions == InitPositions /\ [][NextPositions]_vars

\* the list is in order of non-increasing total volume
ByVolumeDesc(list) ==
  \A i \in 1..Len(list), j \in 1..Len(list) :
    i < j => RLeq(list[j].totalVolume, list[i].totalVolume)

\* an option that has expired as of now
ExpiredOption(symbol) ==
  /\ parseOptionsSymbol(symbol, now) # Null
  /\ parseOptionsSymbol(symbol, now).isExpired

\* C15: currentPositions holds, once each, exactly the symbols of the FIFO result
\* with |netPosition| >= 0.1 that are no expired options, and symbolStats and
\* currentPositions are in order of non-increasing buy volume + sell volume
C15_CurrentPositions ==
  SummaryAnswered =>
    LET stats == response.value.symbolStats
        positions == response.value.currentPositions
    IN  /\ {positions[i].symbol : i \in 1..Len(positions)} =
             {stats[i].symbol :
                i \in {j \in 1..Len(stats) :
                         /\ 10 * Abs(stats[j].netPosition) >= 1
                         /\ ~ExpiredOption(stats[j].symbol)}}
        /\ \A i \in 1..Len(positions), j \in 1..Len(positions) :
             positions[i].symbol = positions[j].symbol => i = j
        /\ \A i \in 1..Len(positions) : \E j \in 1..Len(stats) : positions[i] = stats[j]
        /\ \A i \in 1..Len(stats) :
             stats[i].totalVolume = RAdd(stats[i].buyVolume, stats[i].sellVolume)
        /\ ByVolumeDesc(stats)
        /\ ByVolumeDesc(positions)

\* C15: the summary was asked with an expired option sold short and two open
\* positions, the file's first symbol not the one of the largest volume
C15_ExpiredShortAndOpen ==
  /\ SummaryAnswered
  /\ Len(response.value.symbolStats) = 3
  /\ Len(response.value.currentPositions) = 2
  /\ \E i \in 1..3 :
       /\ ExpiredOption(response.value.symbolStats[i].symbol)
       /\ response.value.symbolStats[i].netPosition < 0
  /\ response.value.symbolStats[1].symbol # portfolioData[1].Symbol
  /\ RLess(response.value.symbolStats[2].totalVolume,
           response.value.symbolStats[1].totalVolume)

\* ------------------------------------------------------- the financial years
\* a variant that takes the calendar year, against which the July boundary is tested
getCalendarYearFromDate(date) == CivilFromDays(DateKey(date)).year

\* getFinancialYearFromDate: getMonth() is 0 for January
getFinancialYearFromDate(date) ==
  LET year == CivilFromDays(DateKey(date)).year
      month == CivilFromDays(DateKey(date)).month - 1
  IN  IF month >= 6 THEN year ELSE year - 1

\* years.add for the sells of the executed rows, in the order of the Set
RECURSIVE SellYears(_, _)
SellYears(rows, years) ==
  IF rows = <<>> THEN years
  ELSE LET financialYear == getFinancialYearFromDate(parseCSVDate(Head(rows)))
       IN  SellYears(Tail(rows),
                     IF Head(rows).Side = "Sell"
                        /\ \A i \in 1..Len(years) : years[i] # financialYear
                     THEN Append(years, financialYear)
                     ELSE years)

\* Array.prototype.sort((a, b) => b - a)
RECURSIVE InsertYearDesc(_, _)
InsertYearDesc(sorted, y) ==
  IF sorted = <<>> THEN <<y>>
  ELSE IF sorted[Len(sorted)] >= y THEN Append(sorted, y)
  ELSE Append(InsertYearDesc(SubSeq(sorted, 1, Len(sorted) - 1), y), sorted[Len(sorted)])

RECURSIVE SortYearsDesc(_)
SortYearsDesc(years) ==
  IF years = <<>> THEN <<>>
  ELSE InsertYearDesc(SortYearsDesc(SubSeq(years, 1, Len(years) - 1)), years[Len(years)])

\* the entry of a year: the label holds the last two digits of the two years
RECURSIVE YearEntries(_)
YearEntries(years) ==
  IF years = <<>> THEN <<>>
  ELSE <<[year |-> Head(years),
          label |-> <<Head(years) % 100, (Head(years) + 1) % 100>>,
          startDate |-> <<Head(years), 7, 1>>,
          endDate |-> <<Head(years) + 1, 6, 30>>]>> \o YearEntries(Tail(years))

getAvailableFinancialYears(rows) ==
  YearEntries(SortYearsDesc(
    SellYears(SelectSeq(rows, LAMBDA r : isExecutedStatus(r.Status)), <<>>)))

\* ipcMain.handle('get-financial-years'); index.html, which asks, is shown once
\* trades are loaded
GetFinancialYears ==
  /\ tradesLoaded
  /\ response' = [request |-> <<"get-financial-years">>,
                  value |-> getAvailableFinancialYears(portfolioData)]
  /\ UNCHANGED <<currencyRates, portfolioData, tradesLoaded, file, rateFeed, boot, now,
                 lastCG>>

\* one share, bought and sold on days either side of the first of July, one row of
\* the file possibly cancelled
YearDates ==
  {DateOf(2023, 6, 30), DateOf(2023, 7, 1), DateOf(2024, 1, 8),
   EndOfDay(2024, 6, 30), DateOf(2024, 7, 1)}
YearRows ==
  {[Row("AAPL", side, 1, 12, time, 1, "US") EXCEPT !.Status = status] :
     side \in {"Buy", "Sell"}, time \in YearDates, status \in {"Filled", "Cancelled"}}
YearFiles == SeqsUpTo(YearRows, MaxTrades)

InitYears ==
  LoadedRates(YearFiles, {<<RateRow(2024, 1, 8, <<3, 2>>)>>}, {DateOf(2024, 9, 1)})

NextYears ==
  \/ LoadPortfolioData
  \/ GetFinancialYears

SpecYears == InitYears /\ [][NextYears]_vars

YearsAnswered == response.request[1] = "get-financial-years"

\* the year whose first of July opens the twelve months the instant lies in
FinancialYearOf(t) ==
  CHOOSE y \in 2000..2100 : DateOf(y, 7, 1) <= t /\ t < DateOf(y + 1, 7, 1)

\* the executed sells of the file the history was loaded from
ExecutedSells ==
  {i \in 1..Len(file) :
     /\ file[i].Status \in {"Filled", "Partially Cancelled"}
     /\ file[i].Side = "Sell"}

\* C16: the years returned are strictly descending, hence without duplicates, and
\* are exactly the financial years of the executed sells of the loaded history, the
\* financial year of a date being its calendar year from July on and the previous
\* year before; buys give no year
C16_FinancialYears ==
  YearsAnswered =>
    LET years == response.value
    IN  /\ \A i \in 1..Len(years), j \in 1..Len(years) :
             i < j => years[i].year > years[j].year
        /\ {years[i].year : i \in 1..Len(years)} =
             {FinancialYearOf(file[i].FillTime) : i \in ExecutedSells}

\* C16: sells of June and of July were loaded, the later year's first, and a
\* buy of another year with them
C16_SellsAcrossJuly ==
  /\ YearsAnswered
  /\ Len(response.value) = 2
  /\ Len(portfolioData) = 3
  /\ portfolioData[1].Side = "Sell"
  /\ portfolioData[1].FillTime = DateOf(2023, 7, 1)
  /\ portfolioData[2].Side = "Sell"
  /\ portfolioData[2].FillTime = DateOf(2023, 6, 30)
  /\ portfolioData[3].Side = "Buy"
  /\ portfolioData[3].FillTime = DateOf(2024, 7, 1)

\* -------------------------------------------- capital gains: the open lots' cost
\* the cost per unit of the buy that opened the lot: its AUD amount, commission
\* and fees over the quantity bought
CostPerUnitAtCreation(trades, holding) ==
  RDiv(RAdd(RAdd(trades[holding.lot].amountAUD, trades[holding.lot].commissionAUD),
            trades[holding.lot].feesAUD),
       R(trades[holding.lot].qty))

\* the open lots after the first k trades of a symbol keep their cost per unit
LotsKeepCostPerUnit(symbol, trades, k) ==
  \A j \in 1..Len(AnsweredReplay(symbol, trades, k).holdings) :
    LET holding == AnsweredReplay(symbol, trades, k).holdings[j]
    IN  holding.qty # 0 =>
          RDiv(holding.cost, R(holding.qty)) = CostPerUnitAtCreation(trades, holding)

\* C17: in the replay of the capital gains report, after any buys, sells inside
\* the window and sells outside it, every open lot of non-zero quantity has
\* remaining cost / remaining quantity equal to its cost per unit at creation
C17_CostPerUnitConstant ==
  GainsAnswered =>
    \A i \in 1..Len(GainsGroups) :
      \A k \in 1..Len(GainsGroups[i].trades) :
        LotsKeepCostPerUnit(GainsGroups[i].symbol, SortByDate(GainsGroups[i].trades), k)

\* C17: a financial year was reported for a lot part of which a sell before the
\* year had consumed
C17_LotPartlySoldBeforeYear ==
  /\ GainsAnswered /\ response.request[2] # NoYear
  /\ \E i \in 1..Len(GainsGroups) :
       LET trades == SortByDate(GainsGroups[i].trades)
           replay == AnsweredReplay(GainsGroups[i].symbol, trades, Len(trades))
       IN  /\ Len(replay.holdings) > 0
           /\ replay.holdings[1].qty > 0
           /\ replay.holdings[1].qty < trades[replay.holdings[1].lot].qty
           /\ \A d \in 1..Len(replay.dropped) : ~replay.dropped[d].inWindow

\* ------------------------------------------------- the sell loop's quantities
\* what an iteration of the sell loop is to take from the head lot
StepTakesMin(step) ==
  /\ step.qty = Min(step.remainingBefore, Abs(step.headQty))
  /\ step.qty >= 0
  /\ step.qty <= step.remainingBefore
  /\ step.qty <= Abs(step.headQty)

\* totalCostBasisSold after the first k iterations of a sell
RECURSIVE CostBasisSold(_, _)
CostBasisSold(steps, k) ==
  IF k = 0 THEN Zero
  ELSE RAdd(CostBasisSold(steps, k - 1), RMul(steps[k].costPerShare, R(steps[k].qty)))

SellTakesMin(sell) ==
  /\ \A j \in 1..Len(sell.steps) : StepTakesMin(sell.steps[j])
  /\ \A j \in 2..Len(sell.steps) :
       sell.steps[j].remainingBefore <= sell.steps[j - 1].remainingBefore
  /\ sell.uncovered <= sell.steps[Len(sell.steps)].remainingBefore
  /\ RLeq(Zero, CostBasisSold(sell.steps, Len(sell.steps)))

\* C18: in every iteration of the sell loop of the summary's replay, whether the
\* head lot is long or short, the quantity taken is min(remaining sell quantity,
\* |head quantity|), so it is not negative and exceeds neither; the remaining
\* sell quantity never grows and the sell's accumulated cost basis is not negative
C18_ConsumedIsMinOfAbs ==
  SummaryAnswered =>
    \A i \in 1..Len(ReplayedGroups) :
      LET sells == FIFOSorted(SortByDate(ReplayedGroups[i].trades)).sells
      IN  \A s \in 1..Len(sells) : Len(sells[s].steps) > 0 => SellTakesMin(sells[s])

\* C18: a sell of one unit met a short lot of one unit at the head of the queue
C18_SellOfOneMeetsShortOfOne ==
  /\ SummaryAnswered
  /\ LET sells == FIFOSorted(SortByDate(ReplayedGroups[1].trades)).sells
     IN  /\ Len(sells) = 2
         /\ sells[1].uncovered = 1 /\ Len(sells[1].steps) = 0
         /\ Len(sells[2].steps) = 1
         /\ sells[2].steps[1].headQty = -1
         /\ sells[2].steps[1].remainingBefore = 1

\* ------------------------------------------- capital gains: a sell's slices
RECURSIVE HoldingsCost(_, _)
HoldingsCost(holdings, k) ==
  IF k = 0 THEN Zero ELSE RAdd(HoldingsCost(holdings, k - 1), holdings[k].cost)

\* a slice is credited its quantity at the sell's AUD price per unit and charged
\* its share by quantity of the sell's commission and fees
SliceAllocated(trade, slice) ==
  /\ slice.sellPrice = RDiv(trade.amountAUD, R(trade.qty))
  /\ slice.proceeds =
       RSub(RMul(R(slice.qty), RDiv(trade.amountAUD, R(trade.qty))),
            RDiv(RMul(RAdd(trade.commissionAUD, trade.feesAUD), R(slice.qty)),
                 R(trade.qty)))
  /\ \E r \in 1..Len(response.value) : response.value[r] = slice

NetProceeds(trade) == RSub(RSub(trade.amountAUD, trade.commissionAUD), trade.feesAUD)

\* the slices of the sell the replay handled last, the lots standing at `before`
\* when it began and at `after` when it ended
SellAllocated(trade, sell, before, after) ==
  sell.inWindow /\ sell.remainingQty = 0 =>
    /\ \A j \in 1..Len(sell.slices) : SliceAllocated(trade, sell.slices[j])
    /\ SumField(sell.slices, "proceeds", Len(sell.slices)) = NetProceeds(trade)
    /\ SumField(sell.slices, "capitalGain", Len(sell.slices)) =
         RSub(NetProceeds(trade), SumField(sell.slices, "costBasis", Len(sell.slices)))
    /\ SumField(sell.slices, "costBasis", Len(sell.slices)) =
         RSub(HoldingsCost(before.holdings, Len(before.holdings)),
              HoldingsCost(after.holdings, Len(after.holdings)))

MainReplay(symbol, trades, k) ==
  CGReplay(trades, k, CGOptionsInfo(symbol, trades, now), response.request[2], now)

TradeAllocated(symbol, trades, k) ==
  trades[k].side = "Sell" =>
    SellAllocated(trades[k],
                  MainReplay(symbol, trades, k).dropped[Len(MainReplay(symbol, trades, k).dropped)],
                  MainReplay(symbol, trades, k - 1), MainReplay(symbol, trades, k))

\* C19: in the report of main.js each slice of a sell is charged (commissionAUD +
\* feesAUD) x slice quantity / sell quantity and credited slice quantity x AUD
\* sell price per unit; for every sell inside the window that open lots cover
\* whole, the slices' proceeds sum to amountAUD - commissionAUD - feesAUD and
\* their capital gains to that less the cost basis taken out of the lots
C19_ProportionalFees ==
  MainGainsAnswered =>
    \A i \in 1..Len(GainsGroups) :
      \A k \in 1..Len(GainsGroups[i].trades) :
        TradeAllocated(GainsGroups[i].symbol, SortByDate(GainsGroups[i].trades), k)

\* C19: a sell of two units with a commission, inside the window, was reported in
\* two slices of one unit each from two lots
C19_SellInTwoSlices ==
  /\ MainGainsAnswered
  /\ Len(portfolioData) = 3
  /\ portfolioData[1].Side = "Buy" /\ portfolioData[1].FilledQty = 1
  /\ portfolioData[2].Side = "Buy" /\ portfolioData[2].FilledQty = 1
  /\ portfolioData[3].Side = "Sell" /\ portfolioData[3].FilledQty = 2
  /\ portfolioData[3].Commission # Zero
  /\ portfolioData[2].FillTime < portfolioData[3].FillTime
  /\ Len(response.value) = 2
  /\ response.value[1].qty = 1 /\ response.value[2].qty = 1

\* ------------------------------------------- capital gains: holding periods
\* one US share a file; buys and sells a year before the sell day to the hour,
\* half a day later, and on the sell day
HoldingClock == DateOf(2024, 3, 1)
HoldingDates == {DateOf(2023, 1, 8), DateOf(2023, 1, 8) + 1, DateOf(2024, 1, 8)}

HoldingRows ==
  {Row("AAPL", side, qty, 10 + 2 * qty, time, 1, "US") :
     side \in {"Buy", "Sell"}, qty \in 1..MaxQty, time \in HoldingDates}

HoldingFiles == SeqsUpTo(HoldingRows, MaxTrades)
HoldingFeeds == {<<RateRow(2024, 1, 8, <<8, 5>>)>>}

InitHolding == LoadedRates(HoldingFiles, HoldingFeeds, {HoldingClock})

NextHolding ==
  \/ LoadPortfolioData
  \/ \E financialYear \in GainsYears : GetCapitalGains(financialYear)
  \/ \E financialYear \in GainsYears : ServerGetCapitalGains(financialYear)

SpecHolding == InitHolding /\ [][NextHolding]_vars

\* script.js reads a record as long-term from its holding period when the record
\* carries no flag of its own
isLongTerm(gain) ==
  IF "isLongTerm" \in DOMAIN gain THEN gain.isLongTerm ELSE gain.holdingPeriod >= 365

\* the lots a sell of `remaining` units is matched with, oldest first, and the
\* quantity it takes from each
RECURSIVE FifoMatching(_, _)
FifoMatching(holdings, remaining) ==
  IF remaining > 0 /\ holdings # <<>>
  THEN <<[lot |-> holdings[1].lot, qty |-> Min(remaining, holdings[1].qty)]>>
         \o FifoMatching(Tail(holdings), remaining - Min(remaining, holdings[1].qty))
  ELSE <<>>

\* a record stands for one matched slice: the lot's open date, the quantity taken
\* from it, the whole days from that date to the sell, long-term from 365 days
RecordOfSlice(trades, record, match) ==
  /\ record.buyDate = trades[match.lot].date
  /\ record.qty = match.qty
  /\ record.holdingPeriod = (record.sellDate - trades[match.lot].date) \div TicksPerDay
  /\ isLongTerm(record) <=> record.holdingPeriod >= 365

\* the records of the sell the replay handled last, against the lots open before it
SellInSlices(trades, sell, before) ==
  sell.inWindow /\ sell.remainingQty = 0 =>
    LET matching == FifoMatching(before.holdings, sell.qty)
    IN  /\ Len(sell.slices) = Len(matching)
        /\ \A j \in 1..Len(matching) :
             j <= Len(sell.slices) => RecordOfSlice(trades, sell.slices[j], matching[j])

TradeInSlices(symbol, trades, k) ==
  trades[k].side = "Sell" =>
    SellInSlices(trades,
                 AnsweredReplay(symbol, trades, k).dropped[
                   Len(AnsweredReplay(symbol, trades, k).dropped)],
                 AnsweredReplay(symbol, trades, k - 1))

ReportInSlices ==
  \A i \in 1..Len(GainsGroups) :
    \A k \in 1..Len(GainsGroups[i].trades) :
      TradeInSlices(GainsGroups[i].symbol, SortByDate(GainsGroups[i].trades), k)

\* main.js: the report holds one record for each slice of a covered sell
MainRecordPerSlice == MainGainsAnswered => ReportInSlices

\* C20: the report holds one record for each FIFO-matched slice of a sell inside
\* the window; the record's buyDate is the open date of the lot the slice took
\* from, its holdingPeriod the whole days from then to the sell, and it is
\* long-term exactly when that is 365 or more, so a sell over an old and a recent
\* lot gives a long-term record and a short-term record
C20_RecordPerSlice == GainsAnswered => ReportInSlices

\* C20: a sell of two units took one from a lot opened 365 days before and one from
\* a lot opened half a day after that, and was reported
C20_SellSpansOldAndRecentLot ==
  /\ GainsAnswered
  /\ Len(portfolioData) = 3
  /\ portfolioData[1].Side = "Buy" /\ portfolioData[1].FilledQty = 1
  /\ portfolioData[1].FillTime = DateOf(2023, 1, 8)
  /\ portfolioData[2].Side = "Buy" /\ portfolioData[2].FilledQty = 1
  /\ portfolioData[2].FillTime = DateOf(2023, 1, 8) + 1
  /\ portfolioData[3].Side = "Sell" /\ portfolioData[3].FilledQty = 2
  /\ portfolioData[3].FillTime = DateOf(2024, 1, 8)
  /\ Len(response.value) > 0

\* ------------------------------------------ the summary against the report
\* files of Australian trades: up to MaxTrades trades over two shares, or with one
\* trade fewer an option that expired on 2024-01-19
AgreeClock == DateOf(2024, 3, 1)
AgreeDates == {DateOf(2024, 1, 8), DateOf(2024, 1, 9)}

AgreeRows(symbols) ==
  {Row(symbol, side, qty, 10 + 2 * qty, time, 1, "AU") :
     symbol \in symbols, side \in {"Buy", "Sell"}, qty \in 1..MaxQty, time \in AgreeDates}

AgreeFiles ==
  SeqsUpTo(AgreeRows({"BHP", "AAPL"}), MaxTrades)
    \cup SeqsUpTo(AgreeRows({"SPY240119C480000"}), MaxTrades - 1)

AgreeFeeds == {<<RateRow(2024, 1, 8, <<8, 5>>), RateRow(2024, 3, 1, <<2, 1>>)>>}

InitAgree == LoadedRates(AgreeFiles, AgreeFeeds, {AgreeClock})

NextAgree ==
  \/ LoadPortfolioData
  \/ GetPortfolioSummary("AUD")
  \/ GetCapitalGains(NoYear)

SpecAgree == InitAgree /\ [][NextAgree]_vars

\* the summary in AUD was answered after the report without a year, of the same
\* trades at the same time
BothAnswered ==
  /\ SummaryAnswered /\ response.request[2] = "AUD"
  /\ lastCG.request[1] = "get-capital-gains" /\ lastCG.request[2] = NoYear

\* Australian trades only, every sell covered by open long lots and dated from
\* 2000-01-01 to now
AustralianCovered ==
  /\ \A r \in 1..Len(portfolioData) :
       /\ portfolioData[r].market = "AU"
       /\ portfolioData[r].Side = "Sell" =>
            /\ parseCSVDate(portfolioData[r]) >= DateOf(2000, 1, 1)
            /\ parseCSVDate(portfolioData[r]) <= now
  /\ \A i \in 1..Len(ReplayedGroups) :
       Covered(SortByDate(RealTrades(ReplayedGroups[i].trades)))

SymbolAgrees(symbol) ==
  StatOf(symbol).totalPnL =
    SumField(RecordsOf(lastCG.value, symbol), "capitalGain",
             Len(RecordsOf(lastCG.value, symbol)))

TotalAgrees ==
  response.value.totalPnL = SumField(lastCG.value, "capitalGain", Len(lastCG.value))

\* the two replays agree on every symbol that got no synthetic sell
SharesAgree ==
  BothAnswered /\ AustralianCovered =>
    \A i \in 1..Len(ReplayedGroups) :
      NoSynthetic(ReplayedGroups[i].trades) => SymbolAgrees(ReplayedGroups[i].symbol)

\* C21: for Australian trades whose sells are all covered by open long lots and
\* dated from 2000-01-01 to now, the realized P&L of the summary in AUD is the sum
\* of the capital gains of the report without a year, in total and symbol by symbol
C21_ReplaysAgree ==
  BothAnswered /\ AustralianCovered =>
    /\ TotalAgrees
    /\ \A i \in 1..Len(ReplayedGroups) : SymbolAgrees(ReplayedGroups[i].symbol)

\* C21: an Australian option was bought once, expired, and both the report and the
\* summary were answered
C21_AustralianOptionExpired ==
  /\ BothAnswered /\ AustralianCovered
  /\ Len(portfolioData) = 1
  /\ portfolioData[1].Symbol = "SPY240119C480000" /\ portfolioData[1].Side = "Buy"
  /\ Len(lastCG.value) = 1

\* ------------------------------------------------ the performance series
\* a US share bought once early in 2023 and sold up to twice: before every bounded
\* window, on a Monday of 2023, and on the days around two Sundays of January 2024
PerfClock == DateOf(2024, 3, 1)
PerfBuyDate == DateOf(2023, 1, 10)
PerfSellDates ==
  {DateOf(2023, 2, 15), DateOf(2023, 10, 2), DateOf(2024, 1, 6), DateOf(2024, 1, 7),
   DateOf(2024, 1, 7) + 1, DateOf(2024, 1, 8), DateOf(2024, 1, 14)}
PerfTimeframes == {"3m", "6m", "1y", "all"}

PerfBuys == {Row("AAPL", "Buy", qty, 12, PerfBuyDate, 0, "US") : qty \in 1..MaxQty}
PerfSells ==
  {Row("AAPL", "Sell", qty, price, time, 0, "US") :
     qty \in 1..MaxQty - 1, price \in {10, 12, 14}, time \in PerfSellDates}

PerfFiles ==
  {<<buy>> : buy \in PerfBuys}
    \cup {<<buy, sell>> : buy \in PerfBuys, sell \in PerfSells}
    \cup {<<buy, first, second>> : buy \in PerfBuys, first \in PerfSells, second \in PerfSells}

PerfFeeds == {<<RateRow(2023, 1, 10, <<3, 2>>), RateRow(2024, 1, 8, <<8, 5>>)>>}

InitPerf == LoadedRates(PerfFiles, PerfFeeds, {PerfClock})

NextPerf ==
  \/ LoadPortfolioData
  \/ \E timeframe \in PerfTimeframes, currency \in {"AUD", "USD"} :
       GetPerformanceData(timeframe, "cumulative", currency)

SpecPerf == InitPerf /\ [][NextPerf]_vars

PerfAnswered == response.request[1] = "get-performance-data"

\* the slices the answered series was made of: those of the report without a year
\* sold since the start of the timeframe, with their gains in the display currency
PerfSlices ==
  FilteredGains(calculateCapitalGains(portfolioData, NoYear, currencyRates, now),
                startDate(response.request[2], now), response.request[4], currencyRates)

\* where a bucket stands in time by its key: year, month and, of a week, its number
\* in the month
KeyRank(key) ==
  IF Len(key) = 4 THEN key[1] * 1000 + key[4] * 10 + key[3] ELSE key[1] * 1000 + key[2] * 10

SlicesOfKey(slices, key, weekly) ==
  Len(SelectSeq(slices, LAMBDA g : periodKey(g.sellDate, weekly) = key))

SeriesOrdered(chart) ==
  \A i \in 1..Len(chart) : \A j \in 1..Len(chart) :
    i < j => /\ KeyRank(chart[i].period) < KeyRank(chart[j].period)
             /\ chart[i].date < chart[j].date

SeriesCumulative(chart) ==
  \A k \in 1..Len(chart) : chart[k].cumulativePnL = SumField(chart, "totalPnL", k)

RECURSIVE SumTrades(_, _)
SumTrades(chart, k) == IF k = 0 THEN 0 ELSE SumTrades(chart, k - 1) + chart[k].trades

SeriesCountsSlices(chart, slices) ==
  /\ SumTrades(chart, Len(chart)) = Len(slices)
  /\ \A k \in 1..Len(chart) :
       chart[k].trades = SlicesOfKey(slices, chart[k].period, chart[k].isWeekly)

SeriesTotal(answer, slices) ==
  /\ answer.summary.totalPnL =
       (IF Len(answer.chartData) = 0 THEN Zero
        ELSE answer.chartData[Len(answer.chartData)].cumulativePnL)
  /\ answer.summary.totalPnL = SumField(slices, "convertedGain", Len(slices))

\* C22: the buckets of the series come in ascending order of their start, each
\* bucket's cumulativePnL is the sum of its totalPnL and of those of the buckets
\* before it, every slice sold since the start date is counted in exactly one
\* bucket, and the summary's total is the last cumulative value, the sum of the
\* converted gains of those slices (0 without any)
C22_SeriesIsRunningSum ==
  PerfAnswered =>
    /\ SeriesOrdered(response.value.chartData)
    /\ SeriesCumulative(response.value.chartData)
    /\ SeriesCountsSlices(response.value.chartData, PerfSlices)
    /\ SeriesTotal(response.value, PerfSlices)

\* C22: a series of two buckets with a loss in the first and a gain in the second
C22_TwoBuckets ==
  /\ PerfAnswered
  /\ Len(response.value.chartData) = 2
  /\ RLess(response.value.chartData[1].totalPnL, Zero)
  /\ RLess(Zero, response.value.chartData[2].totalPnL)
  /\ response.value.summary.totalTrades = 2

\* a bucket keyed by the week of its first slice, or by its calendar month
WeekBucket(point) == point.isWeekly /\ Len(point.period) = 4 /\ point.period[2] = "W"
MonthBucket(point) ==
  /\ ~point.isWeekly
  /\ point.period = <<CivilFromDays(DateKey(point.date)).year,
                      CivilFromDays(DateKey(point.date)).month>>

BucketsByWeekFor(timeframes) ==
  PerfAnswered =>
    \A k \in 1..Len(response.value.chartData) :
      IF response.request[2] \in timeframes
      THEN WeekBucket(response.value.chartData[k])
      ELSE MonthBucket(response.value.chartData[k])

\* C23: the series is bucketed by week (keys starting on Monday) for each of the
\* timeframes 3 months, 6 months and 1 year, and by calendar month only for all time
C23_WeeklyForBoundedWindows == BucketsByWeekFor({"3m", "6m", "1y"})

\* C23, amended: the series is bucketed by week for the timeframes 3 months and
\* 6 months, and by calendar month for 1 year and for all time
C23_WeeklyBelowOneYear == BucketsByWeekFor({"3m", "6m"})

\* C23: the series of one year was answered with a bucket in it
C23_YearSeriesAnswered ==
  /\ PerfAnswered
  /\ response.request[2] = "1y"
  /\ Len(response.value.chartData) > 0

\* ------------------------------------------------ the weeks of the series
\* the day that opens the Monday-to-Sunday week of an instant
MondayOnOrBefore(t) == DateKey(t) - ((getDay(t) + 6) % 7)

SameWeek(a, b) == MondayOnOrBefore(a) = MondayOnOrBefore(b)

\* the key the week of an instant is to have
KeyOfWeek(t) == WeekKey(CivilFromDays(MondayOnOrBefore(t)))

SlicesOfWeek(slices, key) ==
  Len(SelectSeq(slices, LAMBDA g : KeyOfWeek(g.sellDate) = key))

\* every slice has a bucket keyed by the Monday of its week, and a bucket counts
\* the slices of its week and no other
BucketsAreWeeks(chart, slices) ==
  /\ \A i \in 1..Len(slices) :
       \E k \in 1..Len(chart) : chart[k].period = KeyOfWeek(slices[i].sellDate)
  /\ \A k \in 1..Len(chart) : chart[k].trades = SlicesOfWeek(slices, chart[k].period)
  /\ \A i \in 1..Len(slices) : \A j \in 1..Len(slices) :
       periodKey(slices[i].sellDate, TRUE) = periodKey(slices[j].sellDate, TRUE)
         <=> SameWeek(slices[i].sellDate, slices[j].sellDate)

WeeklyAnswered == PerfAnswered /\ response.request[2] \in {"3m", "6m"}

\* C24: with weekly buckets every slice is in the bucket of the Monday-to-Sunday
\* week of its sell date, whatever the day of the week, Sunday included: the key
\* comes from the Monday on or before the sell date, and two sell dates share a
\* key exactly when they are of the same week
C24_BucketOfIsoWeek ==
  WeeklyAnswered => BucketsAreWeeks(response.value.chartData, PerfSlices)

\* C24: a weekly series was answered for a sale on Saturday 2024-01-06 and a sale
\* on Sunday 2024-01-07
C24_SoldSaturdayAndSunday ==
  /\ WeeklyAnswered
  /\ Len(PerfSlices) = 2
  /\ PerfSlices[1].sellDate = DateOf(2024, 1, 6)
  /\ PerfSlices[2].sellDate = DateOf(2024, 1, 7)
  /\ Len(response.value.chartData) = 2

\* sales from Monday to Saturday are bucketed by their week
WeekdaysBucketed ==
  WeeklyAnswered /\ (\A i \in 1..Len(PerfSlices) : getDay(PerfSlices[i].sellDate) # 0)
    => BucketsAreWeeks(response.value.chartData, PerfSlices)

\* ------------------------------------------- the best and the worst bucket
IsMaxTotal(chart, amount) ==
  /\ \E k \in 1..Len(chart) : chart[k].totalPnL = amount
  /\ \A k \in 1..Len(chart) : RLeq(chart[k].totalPnL, amount)

IsMinTotal(chart, amount) ==
  /\ \E k \in 1..Len(chart) : chart[k].totalPnL = amount
  /\ \A k \in 1..Len(chart) : RLeq(amount, chart[k].totalPnL)

BestAndWorst(chart, summary) ==
  IF Len(chart) = 0 THEN summary.bestMonth = Null /\ summary.worstMonth = Null
  ELSE /\ summary.bestMonth # Null /\ summary.worstMonth # Null
       /\ IsMaxTotal(chart, summary.bestMonth.amount)
       /\ IsMinTotal(chart, summary.worstMonth.amount)

\* C25: the best bucket of the summary is a bucket of the greatest total gain and
\* the worst bucket one of the least, whatever the totals are, a total of exactly 0
\* and totals all negative or all positive included; both are null only when the
\* series has no bucket
C25_BestIsMaxWorstIsMin ==
  PerfAnswered => BestAndWorst(response.value.chartData, response.value.summary)

\* C25: a series of two buckets was answered, the first with a total of exactly 0
\* and the second with a loss
C25_ZeroThenLoss ==
  /\ PerfAnswered
  /\ Len(response.value.chartData) = 2
  /\ response.value.chartData[1].totalPnL = Zero
  /\ RLess(response.value.chartData[2].totalPnL, Zero)

\* without a bucket of total 0 the best and the worst are the greatest and the least
NonZeroBestAndWorst ==
  PerfAnswered /\ (\A k \in 1..Len(response.value.chartData) :
                     response.value.chartData[k].totalPnL # Zero)
    => BestAndWorst(response.value.chartData, response.value.summary)

\* ------------------------------------------- the numbers of 'qty@price'
RECURSIVE Pow10(_)
Pow10(n) == IF n = 0 THEN 1 ELSE 10 * Pow10(n - 1)

\* parseFloat(s) || 0 for a text with a decimal point: the leading digits and, after
\* a point, the digits that follow it; what comes after is ignored
parseFloatText(s) ==
  LET whole == PrefixLen(s, Digits)
      rest == SubSeq(s, whole + 2, Len(s))
      places == IF whole < Len(s) /\ s[whole + 1] = "." THEN PrefixLen(rest, Digits) ELSE 0
  IN  Norm(DigitsValue(SubSeq(s, 1, whole)) * Pow10(places)
             + DigitsValue(SubSeq(rest, 1, places)),
           Pow10(places))

\* parseFilledAvg(column, symbol) of a column with its separator
parseFilledAvgNumbers(column, symbol) ==
  LET pieces == Split(column, <<>>, <<>>)
      rawPrice == parseFloatText(RemoveFirst(pieces[2], ","))
  IN  [qty |-> parseFloatText(RemoveFirst(pieces[1], ",")),
       price |-> RMul(rawPrice, R(getMultiplier(symbol)))]

\* a call of parseFilledAvg
ParseFilledAvgOfText(column, symbol) ==
  /\ response' = [request |-> <<"parseFilledAvg", column, symbol>>,
                  value |-> parseFilledAvgNumbers(column, symbol)]
  /\ UNCHANGED <<currencyRates, portfolioData, tradesLoaded, file, rateFeed, boot, now,
                 lastCG>>

\* numbers written with no, one or two thousands separators, prices also with
\* decimal places
LeadGroups == {<<"1", "2">>}
ThousandGroups == {<<"2", "3", "4">>, <<"0", "0", "0">>}
GroupedTexts ==
  LeadGroups
    \cup {lead \o <<",">> \o a : lead \in LeadGroups, a \in ThousandGroups}
    \cup {lead \o <<",">> \o a \o <<",">> \o b :
            lead \in LeadGroups, a \in ThousandGroups, b \in ThousandGroups}
DecimalTexts == {<<>>, <<".", "5">>, <<".", "5", "0">>}
QtyTexts == GroupedTexts
PriceTexts == {whole \o places : whole \in GroupedTexts, places \in DecimalTexts}

InitParse == LoadedRates({<<>>}, {<<RateRow(2024, 1, 8, <<3, 2>>)>>}, {DateOf(2024, 3, 1)})

NextParse ==
  \E qty \in QtyTexts, price \in PriceTexts, symbol \in {"AAPL", "SPY240119C480000"} :
    ParseFilledAvgOfText(qty \o <<"@">> \o price, symbol)

SpecParse == InitParse /\ [][NextParse]_vars

ParseAnswered == response.request[1] = "parseFilledAvg"

\* a text without its commas, and how many it has
StripCommas(s) == SelectSeq(s, LAMBDA c : c # ",")
Commas(s) == Len(s) - Len(StripCommas(s))

QtyText == Split(response.request[2], <<>>, <<>>)[1]
PriceText == Split(response.request[2], <<>>, <<>>)[2]

ParsedAsStripped ==
  /\ response.value.qty = parseFloatText(StripCommas(QtyText))
  /\ response.value.price =
       RMul(parseFloatText(StripCommas(PriceText)), R(getMultiplier(response.request[3])))

\* C26: the parse of 'qty@price' strips every thousands separator before it reads
\* the numbers: for a quantity and a price written with no, one or several commas
\* the parsed quantity and raw price are the numbers of the texts without commas
C26_AllCommasStripped == ParseAnswered => ParsedAsStripped

\* C26: a quantity written with two commas was parsed
C26_TwoCommasParsed ==
  /\ ParseAnswered
  /\ QtyText = <<"1", "2", ",", "2", "3", "4", ",", "0", "0", "0">>
  /\ Commas(PriceText) = 0

\* with at most one comma in the quantity and in the price the numbers are right
OneCommaStripped ==
  ParseAnswered /\ Commas(QtyText) <= 1 /\ Commas(PriceText) <= 1 => ParsedAsStripped

\* -------------------------------------------- the place of the expiry close
\* in the sorted trades of a symbol the synthetic sell comes after every real trade
SyntheticLast(trades) ==
  \A j \in 1..Len(trades) : trades[j].isSynthetic => j = Len(trades)

HasSynthetic(trades) == \E j \in 1..Len(trades) : trades[j].isSynthetic

\* C27: for every expired option that got a synthetic sell, the sorted trades the
\* replay goes through end with the synthetic sell, also when real trades are
\* dated on the expiry day or after it, so that every lot a real buy opened is in
\* the queue when the synthetic sell is matched and no lot is open after the replay
C27_ExpiryCloseIsLast ==
  GainsAnswered =>
    \A i \in 1..Len(GainsGroups) :
      HasSynthetic(GainsGroups[i].trades) =>
        /\ SyntheticLast(SortByDate(GainsGroups[i].trades))
        /\ AnsweredReplay(GainsGroups[i].symbol, SortByDate(GainsGroups[i].trades),
                          Len(GainsGroups[i].trades)).holdings = <<>>

\* C27: an option bought once, in the course of its expiry day, was reported
C27_BoughtInTheCourseOfExpiryDay ==
  /\ GainsAnswered
  /\ Len(portfolioData) = 1
  /\ portfolioData[1].Symbol = "SPY240119C480000" /\ portfolioData[1].Side = "Buy"
  /\ portfolioData[1].FillTime = DateOf(2024, 1, 19) + 1
  /\ HasSynthetic(GainsGroups[1].trades)

\* when every real trade is dated before the expiry day the synthetic sell is last
\* and, sells covered, no lot stays open
ExpiryCloseAfterEarlierTrades ==
  GainsAnswered /\ response.request[2] = NoYear =>
    \A i \in 1..Len(GainsGroups) :
      /\ HasSynthetic(GainsGroups[i].trades)
      /\ \A j \in 1..Len(GainsGroups[i].trades) :
           ~GainsGroups[i].trades[j].isSynthetic =>
             GainsGroups[i].trades[j].date < DateOf(2024, 1, 19)
      /\ Covered(SortByDate(RealTrades(GainsGroups[i].trades)))
      => /\ SyntheticLast(SortByDate(GainsGroups[i].trades))
         /\ AnsweredReplay(GainsGroups[i].symbol, SortByDate(GainsGroups[i].trades),
                           Len(GainsGroups[i].trades)).holdings = <<>>

\* ------------------------------------------- the records and the listed years
\* the files of the reports; the report without a year, then the list of years
NextReach ==
  \/ LoadPortfolioData
  \/ GetCapitalGains(NoYear)
  \/ GetFinancialYears

SpecReach == InitGains /\ [][NextReach]_vars

\* the years were listed after the report without a year, of the same trades
YearsAfterReport ==
  /\ YearsAnswered
  /\ lastCG.request[1] = "get-capital-gains" /\ lastCG.request[2] = NoYear

ListedYears == {response.value[i].year : i \in 1..Len(response.value)}

\* the financial year whose window [Y-07-01, (Y+1)-06-30T23:59:59.999] holds an instant
YearOfWindow(t) ==
  IF t >= DateOf(CivilFromDays(DateKey(t)).year, 7, 1)
  THEN CivilFromDays(DateKey(t)).year ELSE CivilFromDays(DateKey(t)).year - 1

SameSlice(a, b) ==
  /\ a.symbol = b.symbol /\ a.sellDate = b.sellDate
  /\ a.buyDate = b.buyDate /\ a.qty = b.qty

InReportOf(record, financialYear) ==
  \E j \in 1..Len(calculateCapitalGains(portfolioData, financialYear, currencyRates, now)) :
    SameSlice(calculateCapitalGains(portfolioData, financialYear, currencyRates, now)[j],
              record)

ReachableByYear(record) ==
  /\ YearOfWindow(record.sellDate) \in ListedYears
  /\ \A y \in ListedYears \cup {YearOfWindow(record.sellDate)} :
       InReportOf(record, y) <=> y = YearOfWindow(record.sellDate)

\* C28: for every record of the report without a year, those of a synthetic expiry
\* sell included, the financial year whose window holds the record's sellDate is
\* among the listed years, and the record is in the report of that year and of no
\* other
C28_RecordsReachableByYear ==
  YearsAfterReport =>
    \A r \in 1..Len(lastCG.value) : ReachableByYear(lastCG.value[r])

\* C28: an option bought once and never sold expired, its loss was reported and
\* the years were listed
C28_ExpiredWithoutSell ==
  /\ YearsAfterReport
  /\ Len(portfolioData) = 1
  /\ portfolioData[1].Symbol = "SPY240119C480000" /\ portfolioData[1].Side = "Buy"
  /\ Len(lastCG.value) = 1
  /\ lastCG.value[1].sellDate = DateOf(2024, 1, 19)

\* the records of a symbol without a synthetic sell are reachable through a listed year
RealSellsReachableByYear ==
  YearsAfterReport =>
    \A r \in 1..Len(lastCG.value) :
      \/ \E i \in 1..Len(GainsGroups) :
           /\ GainsGroups[i].symbol = lastCG.value[r].symbol
           /\ HasSynthetic(GainsGroups[i].trades)
      \/ ReachableByYear(lastCG.value[r])

\* ------------------------------------------------- the market of a row
\* String.prototype.trim for texts of letters and blanks
RECURSIVE trimStart(_)
trimStart(s) == IF s # <<>> /\ Head(s) = " " THEN trimStart(Tail(s)) ELSE s

RECURSIVE trimEnd(_)
trimEnd(s) ==
  IF s # <<>> /\ s[Len(s)] = " " THEN trimEnd(SubSeq(s, 1, Len(s) - 1)) ELSE s

trim(s) == trimEnd(trimStart(s))

\* String.prototype.toUpperCase for the letters the texts of the model hold
UpperOf(c) ==
  CASE c = "a" -> "A" [] c = "u" -> "U" [] c = "s" -> "S" [] c = "h" -> "H"
    [] c = "k" -> "K" [] OTHER -> c

RECURSIVE toUpperCase(_)
toUpperCase(s) == IF s = <<>> THEN <<>> ELSE <<UpperOf(Head(s))>> \o toUpperCase(Tail(s))

\* the string of a text, for the texts a market can come out as
MarketString(s) ==
  CASE s = <<"U", "S">> -> "US" [] s = <<"A", "U">> -> "AU" [] s = <<"H", "K">> -> "HK"
    [] s = <<" ", "U", "S", " ">> -> " US " [] s = <<" ", "A", "U">> -> " AU"

AustralianTickers == {"LYC", "NXL", "BHP", "CBA", "ANZ", "WBC", "CSL", "WOW", "WES"}

\* getTradeMarket(trade): the Markets column in upper case if it is not blank, else
\* AU or US by the Currency column if that is not blank, else by the ticker
getTradeMarket(trade) ==
  IF trim(trade.Markets) # <<>> THEN MarketString(toUpperCase(trade.Markets))
  ELSE IF trim(trade.Currency) # <<>>
  THEN (IF trade.Currency = <<"A", "U", "D">> THEN "AU" ELSE "US")
  ELSE IF trade.Symbol \in AustralianTickers THEN "AU"
  ELSE "US"

\* .on('data'): row.market = getTradeMarket(row)
RECURSIVE WithMarkets(_)
WithMarkets(rows) ==
  IF rows = <<>> THEN <<>>
  ELSE <<[Head(rows) EXCEPT !.market = getTradeMarket(Head(rows))]>>
         \o WithMarkets(Tail(rows))

\* loadPortfolioData of a file whose rows have their Markets and Currency columns
LoadPortfolioDataOfCsv ==
  /\ portfolioData' = ExecutedRows(WithMarkets(file))
  /\ tradesLoaded' = TRUE
  /\ boot' = IF boot = "trades" THEN "done" ELSE boot
  /\ lastCG' = NoResponse
  /\ UNCHANGED <<currencyRates, file, rateFeed, now, response>>

CsvRow(symbol, side, markets, currency) ==
  [Symbol |-> symbol, Side |-> side, Status |-> "Filled",
   FilledQty |-> 1, AvgPrice |-> R(12), FillTime |-> DateOf(2024, 1, 8),
   Commission |-> R(1), Total |-> Zero, Name |-> symbol, market |-> "undefined",
   Markets |-> markets, Currency |-> currency]

MarketsTexts ==
  {<<>>, <<" ", " ">>, <<"U", "S">>, <<"a", "u">>, <<" ", "U", "S", " ">>, <<"H", "K">>}
CurrencyTexts == {<<>>, <<"A", "U", "D">>, <<"U", "S", "D">>}

CsvRows ==
  {CsvRow(symbol, side, markets, currency) :
     symbol \in {"AAPL", "BHP"}, side \in {"Buy", "Sell"},
     markets \in MarketsTexts, currency \in CurrencyTexts}

CsvFiles == SeqsUpTo(CsvRows, MaxTrades - 1)

InitMarket ==
  LoadedRates(CsvFiles, {<<RateRow(2024, 1, 8, <<3, 2>>)>>}, {DateOf(2024, 3, 1)})

NextMarket ==
  \/ LoadPortfolioDataOfCsv
  \/ GetPortfolioSummary("AUD")
  \/ GetCapitalGains(NoYear)

SpecMarket == InitMarket /\ [][NextMarket]_vars

\* the currency convertCurrency takes amounts of a market to be in: an amount
\* turned into USD stays as it is exactly when it is taken to be in USD
ConverterSource(market) ==
  IF convertCurrency(currencyRates, R(1), market, "USD", now) = R(1) THEN "USD" ELSE "AUD"

MarketConsistent(row) ==
  /\ row.market \in {"US", "AU"}
  /\ FIFOTrade(row).originalCurrency = ConverterSource(row.market)
  /\ FIFOTrade(row).originalCurrency = (IF row.market = "US" THEN "USD" ELSE "AUD")
  /\ ConverterSource(row.market) = (IF row.market = "AU" THEN "AUD" ELSE "USD")

\* C29: for every executed trade, whatever its Markets and Currency columns hold,
\* a Markets value other than US or AU or one with blanks around it included, the
\* market given to the row is US or AU, and the original currency the summary
\* takes for it (USD exactly for US, else AUD) is the currency the converter
\* takes amounts of that market to be in (AUD exactly for AU, else USD)
C29_MarketIsUSorAU ==
  tradesLoaded => \A r \in 1..Len(portfolioData) : MarketConsistent(portfolioData[r])

\* C29: a row whose Markets column reads HK was loaded and summarised
C29_OtherMarketLoaded ==
  /\ tradesLoaded
  /\ SummaryAnswered
  /\ Len(portfolioData) = 1
  /\ portfolioData[1].Markets = <<"H", "K">>

\* rows whose Markets column is blank or reads US or AU, in any case and without
\* blanks around it, get a market that the summary and the converter read alike
PlainMarketsConsistent ==
  tradesLoaded =>
    \A r \in 1..Len(portfolioData) :
      portfolioData[r].Markets \in {<<>>, <<" ", " ">>, <<"U", "S">>, <<"a", "u">>}
        => MarketConsistent(portfolioData[r])

\* ------------------------------------------- the sell loops, one iteration
\* one iteration of the while loop of a sell in calculateFIFOPnL, by quantities.
\* st = [queue, remaining]
FIFOSellIteration(st) ==
  LET holding == st.queue[1]
      qtyFromThisHolding == Min(st.remaining, holding.qty)
      reduced == [holding EXCEPT !.qty = @ - qtyFromThisHolding]
  IN  [queue |-> IF reduced.qty <= 0 THEN Tail(st.queue)
                 ELSE <<reduced>> \o Tail(st.queue),
       remaining |-> st.remaining - qtyFromThisHolding]

\* a variant of the iteration below that takes nothing from a lot of negative
\* quantity, against which the progress of every iteration is tested
CGSellIterationNothingFromNegative(st) ==
  LET holding == st.holdings[1]
      qtyToSell == Min(st.remainingQty, IF holding.qty < 0 THEN 0 ELSE holding.qty)
      reduced == [holding EXCEPT !.qty = @ - qtyToSell]
  IN  [holdings |-> IF reduced.qty = 0 THEN Tail(st.holdings)
                    ELSE <<reduced>> \o Tail(st.holdings),
       remainingQty |-> st.remainingQty - qtyToSell]

\* one iteration of the while loop of a sell in calculateCapitalGains, by
\* quantities: the statements are the same inside and outside the window.
\* st = [holdings, remainingQty]
CGSellIteration(st) ==
  LET holding == st.holdings[1]
      qtyToSell == Min(st.remainingQty, holding.qty)
      reduced == [holding EXCEPT !.qty = @ - qtyToSell]
  IN  [holdings |-> IF reduced.qty = 0 THEN Tail(st.holdings)
                    ELSE <<reduced>> \o Tail(st.holdings),
       remainingQty |-> st.remainingQty - qtyToSell]

\* one Australian share a file, with filled quantities of -1, 0 and upwards, on the
\* last day before the financial year 2023 and inside it
LoopClock == DateOf(2024, 3, 1)
LoopDates == {DateOf(2023, 6, 30), DateOf(2024, 1, 8)}
LoopYears == {NoYear, 2023}

LoopRows ==
  {Row("BHP", side, qty, 12, time, 1, "AU") :
     side \in {"Buy", "Sell"}, qty \in -1..MaxQty, time \in LoopDates}

LoopFiles == SeqsUpTo(LoopRows, MaxTrades)

InitLoop == LoadedRates(LoopFiles, GainsFeeds, {LoopClock})

NextLoop ==
  \/ LoadPortfolioData
  \/ GetPortfolioSummary("AUD")
  \/ \E financialYear \in LoopYears : GetCapitalGains(financialYear)

SpecLoop == InitLoop /\ [][NextLoop]_vars

\* from st on, every iteration of the summary's loop removes the head lot or
\* brings the remaining quantity to 0
RECURSIVE FIFOProgress(_)
FIFOProgress(st) ==
  (st.remaining > 0 /\ Len(st.queue) > 0) =>
    /\ \/ Len(FIFOSellIteration(st).queue) = Len(st.queue) - 1
       \/ FIFOSellIteration(st).remaining = 0
    /\ FIFOProgress(FIFOSellIteration(st))

RECURSIVE FIFOIterated(_)
FIFOIterated(st) ==
  IF st.remaining > 0 /\ Len(st.queue) > 0 THEN FIFOIterated(FIFOSellIteration(st))
  ELSE st

\* the same for the loop of the capital gains report
RECURSIVE CGProgress(_)
CGProgress(st) ==
  (st.remainingQty > 0 /\ Len(st.holdings) > 0) =>
    /\ \/ Len(CGSellIteration(st).holdings) = Len(st.holdings) - 1
       \/ CGSellIteration(st).remainingQty = 0
    /\ CGProgress(CGSellIteration(st))

RECURSIVE CGIterated(_)
CGIterated(st) ==
  IF st.remainingQty > 0 /\ Len(st.holdings) > 0 THEN CGIterated(CGSellIteration(st))
  ELSE st

\* the sell at k of the summary's replay: its iterations progress, and the loop
\* leaves the lots and the remaining quantity that the iterations leave
FIFOSellTerminates(trades, k) ==
  LET start == [queue |-> FIFOReplay(trades, k - 1).queue, remaining |-> trades[k].qty]
      loop == FIFOSellLoop([queue |-> start.queue, remaining |-> start.remaining,
                            cost |-> Zero, steps |-> <<>>])
  IN  /\ FIFOProgress(start)
      /\ OpenLots(loop.queue, Len(loop.queue))
           = OpenLots(FIFOIterated(start).queue, Len(FIFOIterated(start).queue))
      /\ loop.remaining = FIFOIterated(start).remaining

\* the sell at k of the report's replay, inside or outside the window
CGSellTerminates(symbol, trades, k) ==
  LET start == [holdings |-> MainReplay(symbol, trades, k - 1).holdings,
                remainingQty |-> trades[k].qty]
      after == MainReplay(symbol, trades, k)
  IN  /\ CGProgress(start)
      /\ OpenLots(after.holdings, Len(after.holdings))
           = OpenLots(CGIterated(start).holdings, Len(CGIterated(start).holdings))
      /\ after.dropped[Len(after.dropped)].remainingQty = CGIterated(start).remainingQty

\* C30: the sell loops end for every sell and every queue: in the summary's replay
\* and in the capital gains report, inside and outside the window, every iteration
\* removes the head lot from the queue or brings the remaining quantity to 0, a
\* head lot of zero or negative quantity included
C30_SellLoopsTerminate ==
  /\ SummaryAnswered =>
       \A i \in 1..Len(ReplayedGroups) :
         LET trades == SortByDate(ReplayedGroups[i].trades)
         IN  \A k \in 1..Len(trades) :
               trades[k].side = "Sell" => FIFOSellTerminates(trades, k)
  /\ MainGainsAnswered =>
       \A i \in 1..Len(GainsGroups) :
         LET trades == SortByDate(GainsGroups[i].trades)
         IN  \A k \in 1..Len(trades) :
               trades[k].side = "Sell"
                 => CGSellTerminates(GainsGroups[i].symbol, trades, k)

\* C30: the report replayed a sell inside the window that met a head lot of
\* negative quantity with a lot of positive quantity behind it
C30_SellMeetsNegativeHeadLot ==
  /\ MainGainsAnswered
  /\ response.request[2] = NoYear
  /\ Len(GainsGroups) = 1
  /\ LET trades == SortByDate(GainsGroups[1].trades)
     IN  /\ Len(trades) = 3
         /\ trades[1].side = "Buy" /\ trades[1].qty < 0
         /\ trades[2].side = "Buy" /\ trades[2].qty > 0
         /\ trades[3].side = "Sell" /\ trades[3].qty > 0
         /\ Len(response.value) = 2

====
